---- MODULE Spec2Model ----
(***************************************************************************)
(* AgentGate paywall middleware (packages/middleware) and the ledger       *)
(* verifier (packages/core/src/verify.ts), modelled as a state machine.    *)
(*                                                                         *)
(* Strings the code inspects character by character (the X-Payment header, *)
(* hex hashes, addresses, decimal amounts) are sequences of one-character  *)
(* strings.  JavaScript runs the middleware on one thread: code between    *)
(* two awaits is one atomic action, and requests interleave at the awaits  *)
(* (the ledger read of verifyPayment, the onPayment hook).                 *)
(***************************************************************************)
EXTENDS Integers, Sequences, FiniteSets, TLC

\* ------------------------------------------------------------------ bounds
MaxRequests == 2

Slots == 1..MaxRequests

\* --------------------------------------------------- JavaScript string ops
Digits == {"0", "1", "2", "3", "4", "5", "6", "7", "8", "9"}

DigitVal(c) ==
  CASE c = "0" -> 0 [] c = "1" -> 1 [] c = "2" -> 2 [] c = "3" -> 3
    [] c = "4" -> 4 [] c = "5" -> 5 [] c = "6" -> 6 [] c = "7" -> 7
    [] c = "8" -> 8 [] c = "9" -> 9 [] OTHER -> 0

LowerChar(c) ==
  CASE c = "A" -> "a" [] c = "B" -> "b" [] c = "C" -> "c"
    [] c = "D" -> "d" [] c = "E" -> "e" [] c = "F" -> "f"
    [] c = "X" -> "x" [] OTHER -> c

\* String.prototype.toLowerCase
ToLowerCase(s) == [i \in 1..Len(s) |-> LowerChar(s[i])]

\* String.prototype.lastIndexOf (0-based, -1 when absent)
LastIndexOf(s, ch) ==
  LET hits == {i \in 1..Len(s) : s[i] = ch}
  IN  IF hits = {} THEN -1
      ELSE (CHOOSE i \in hits : \A j \in hits : j <= i) - 1

\* String.prototype.indexOf (0-based, -1 when absent)
IndexOf(s, ch) ==
  LET hits == {i \in 1..Len(s) : s[i] = ch}
  IN  IF hits = {} THEN -1
      ELSE (CHOOSE i \in hits : \A j \in hits : i <= j) - 1

\* String.prototype.slice(from, to) with 0-based, end-exclusive indexes
Slice(s, from, to) == SubSeq(s, from + 1, to)

StartsWith0x(s) == Len(s) >= 2 /\ s[1] = "0" /\ s[2] = "x"

\* the longest prefix of decimal digits
RECURSIVE DigitPrefixLen(_)
DigitPrefixLen(s) ==
  IF s = <<>> \/ Head(s) \notin Digits THEN 0
  ELSE 1 + DigitPrefixLen(Tail(s))

RECURSIVE DigitsValue(_)
DigitsValue(s) ==
  IF s = <<>> THEN 0
  ELSE 10 * DigitsValue(SubSeq(s, 1, Len(s) - 1)) + DigitVal(s[Len(s)])

\* parseInt(s, 10): the leading digits, NaN when there are none
ParseInt10(s) ==
  LET n == DigitPrefixLen(s)
  IN  IF n = 0 THEN [nan |-> TRUE, val |-> 0]
      ELSE [nan |-> FALSE, val |-> DigitsValue(SubSeq(s, 1, n))]

RECURSIVE Pow10(_)
Pow10(n) == IF n = 0 THEN 1 ELSE 10 * Pow10(n - 1)

RECURSIVE StripTrailingZeros(_)
StripTrailingZeros(s) ==
  IF s # <<>> /\ s[Len(s)] = "0"
  THEN StripTrailingZeros(SubSeq(s, 1, Len(s) - 1))
  ELSE s

ParseUnits_noPad(value, decimals) ==
  LET dot == IndexOf(value, ".")
  IN  IF dot = -1 THEN DigitsValue(value) * Pow10(decimals)
      ELSE DigitsValue(Slice(value, 0, dot)) * Pow10(decimals)
             + DigitsValue(Slice(value, dot + 1, Len(value)))

\* viem parseUnits(value, decimals) for a decimal string: the sign, the
\* integer and fraction part around the dot, the fraction stripped of
\* trailing zeros, rounded half-up when longer than decimals, else padded.
ParseUnits(value, decimals) ==
  LET negative == value # <<>> /\ value[1] = "-"
      unsigned == IF negative THEN Tail(value) ELSE value
      dot      == IndexOf(unsigned, ".")
      integer  == IF dot = -1 THEN unsigned ELSE Slice(unsigned, 0, dot)
      fracRaw  == IF dot = -1 THEN <<"0">>
                  ELSE Slice(unsigned, dot + 1, Len(unsigned))
      fraction == StripTrailingZeros(fracRaw)
      magnitude ==
        IF Len(fraction) > decimals
        THEN LET kept  == DigitsValue(SubSeq(fraction, 1, decimals))
                 next  == DigitVal(fraction[decimals + 1])
             IN  DigitsValue(integer) * Pow10(decimals) + kept
                   + (IF next >= 5 THEN 1 ELSE 0)
        ELSE DigitsValue(integer) * Pow10(decimals)
               + DigitsValue(fraction) * Pow10(decimals - Len(fraction))
  IN  IF negative THEN 0 - magnitude ELSE magnitude

DigitChar(d) ==
  CASE d = 0 -> "0" [] d = 1 -> "1" [] d = 2 -> "2" [] d = 3 -> "3"
    [] d = 4 -> "4" [] d = 5 -> "5" [] d = 6 -> "6" [] d = 7 -> "7"
    [] d = 8 -> "8" [] OTHER -> "9"

\* Number/BigInt.prototype.toString of a non-negative integer
RECURSIVE ToDecimalString(_)
ToDecimalString(n) ==
  IF n < 0 THEN <<"-">> \o ToDecimalString(0 - n)
  ELSE IF n < 10 THEN <<DigitChar(n)>>
  ELSE ToDecimalString(n \div 10) \o <<DigitChar(n % 10)>>

\* BigInt(s) of a string of decimal digits
BigInt(s) == DigitsValue(s)

\* ------------------------------------------------------------ configuration
\* STABLECOINS.pathUSD
TokenAddress == <<"0", "x", "2", "0", "c", "0">>
TokenDecimals == 6
OtherTokenAddress == <<"0", "x", "2", "0", "c", "1">>

\* PaywallOptions.recipientAddress (checksum case, as in the tests)
RecipientAddress == <<"0", "x", "0", "0", "D", "f">>
OtherAddress == <<"0", "x", "0", "0", "E", "e">>
SenderAddress == <<"0", "x", "5", "e", "A", "d">>

\* PaywallOptions.expirySeconds default
ExpirySeconds == 300

ZERO_MEMO == <<"0", "x", "0", "0">>

Methods == {"GET", "POST"}
Paths == {"/api/chat", "/api/paid"}

KeyOf_pathOnly(method, path) == "POST" \o " " \o path

\* const key = `${method} ${path}`
KeyOf(method, path) == method \o " " \o path

\* PaywallOptions.pricing
Pricing ==
  [k \in {"POST /api/chat", "POST /api/paid"} |->
     IF k = "POST /api/chat"
     THEN [amount |-> <<"0", ".", "0", "0", "5">>]
     ELSE [amount |-> <<"0", ".", "0", "1">>]]

\* const price = pricing[key]; if (!price) ...
HasPrice(key) == key \in DOMAIN Pricing

\* ------------------------------------------------------------------ ledger
TransferLog(token, from, to, value) ==
  [address |-> token, event |-> "Transfer", from |-> from, to |-> to,
   value |-> value, memo |-> <<>>]

TransferWithMemoLog(token, from, to, value, memo) ==
  [address |-> token, event |-> "TransferWithMemo", from |-> from, to |-> to,
   value |-> value, memo |-> memo]

TxA == <<"0", "x", "a">>
TxB == <<"0", "x", "b">>
TxC == <<"0", "x", "c">>

\* ---------------------------------------------------------- verifyPayment
Undefined == <<>>
NoAmount == -1

Failure_generic(error) ==
  [valid |-> FALSE, error |-> "Verification failed", from |-> Undefined,
   amount |-> NoAmount]

\* the error strings are the constant part of the message: the text before
\* the interpolated values
Failure(error) ==
  [valid |-> FALSE, error |-> error, from |-> Undefined, amount |-> NoAmount]

\* the predicate of receipt.logs.find(...): emitted by the token, decodes
\* as the named event, paid to the recipient
LogMatches(log, eventName, requirement) ==
  /\ ToLowerCase(log.address) = ToLowerCase(requirement.tokenAddress)
  /\ log.event = eventName
  /\ ToLowerCase(log.to) = ToLowerCase(requirement.recipientAddress)

\* Array.prototype.find as the index of the first match, 0 when none
FindLog(logs, eventName, requirement) ==
  LET hits == {i \in 1..Len(logs) : LogMatches(logs[i], eventName, requirement)}
  IN  IF hits = {} THEN 0 ELSE CHOOSE i \in hits : \A j \in hits : i <= j

IsExpired_orEqual(now, expiry) == now >= expiry * 1000

\* if (Date.now() > params.requirement.expiry * 1000)
IsExpired(now, expiry) == now > expiry * 1000

ReceiptFailed(receipt) == receipt.status # "success"

Insufficient_never(value, requiredAmount) == FALSE

Insufficient_orEqual(value, requiredAmount) == value <= requiredAmount

\* if (value! < requiredAmount)
Insufficient(value, requiredAmount) == value < requiredAmount

MemoDiffers_caseSensitive(onChainMemo, memo) == onChainMemo # memo

\* onChainMemo.toLowerCase() !== params.requirement.memo.toLowerCase()
MemoDiffers(onChainMemo, memo) == ToLowerCase(onChainMemo) # ToLowerCase(memo)

\* the part of verifyPayment that runs once the receipt has arrived
VerifyReceipt(receipt, requirement) ==
  LET hasMemoRequirement ==
        requirement.memo # <<>> /\ requirement.memo # ZERO_MEMO
      memoIdx == FindLog(receipt.logs, "TransferWithMemo", requirement)
      xferIdx == FindLog(receipt.logs, "Transfer", requirement)
      idx == IF memoIdx # 0 THEN memoIdx ELSE xferIdx
      onChainMemo == IF memoIdx # 0 THEN receipt.logs[memoIdx].memo ELSE <<>>
  IN  IF ReceiptFailed(receipt) THEN Failure("Transaction failed on-chain")
      ELSE IF idx = 0 THEN Failure("No matching Transfer event found")
      ELSE LET log == receipt.logs[idx]
           IN  IF Insufficient(log.value, BigInt(requirement.amountRequired))
               THEN [valid |-> FALSE, error |-> "Insufficient payment",
                     from |-> log.from, amount |-> log.value]
               ELSE IF /\ hasMemoRequirement
                       /\ onChainMemo # <<>>
                       /\ MemoDiffers(onChainMemo, requirement.memo)
               THEN [valid |-> FALSE, error |-> "Memo mismatch",
                     from |-> log.from, amount |-> log.value]
               ELSE [valid |-> TRUE, error |-> "",
                     from |-> log.from, amount |-> log.value]

\* ------------------------------------------------------------------ inputs
NoHeader == <<>>
Colon1 == <<":", "1">>

\* the X-Payment values a request may carry: absent, the three transactions,
\* TxA with an upper-case hex digit, and values without colon, without 0x
\* and without decimal chain id
Headers ==
  { NoHeader,
    TxA \o Colon1,
    <<"0", "x", "A">> \o Colon1,
    TxB \o Colon1,
    TxC \o Colon1,
    TxA,
    <<"a">> \o Colon1,
    TxA \o <<":", "z">> }

\* Date.now() in milliseconds
Clock == {1000, 2999}

\* Date.now() as a request with X-Payment is handled: long after the
\* expiry of any challenge issued at a time of Clock
RetryClock == {400999}

\* ------------------------------------------------------------------- state
VARIABLES
  usedTxHashes,   \* PaywallOptions.usedTxHashes, the Set<string>
  onPayment,      \* whether PaywallOptions.onPayment is configured
  pc,             \* where each request's middleware invocation stands
  method,         \* c.req.method
  path,           \* new URL(c.req.url).pathname
  key,            \* `${method} ${path}`
  header,         \* c.req.header('X-Payment')
  txHash,         \* paymentHeader.slice(0, colonIdx), <<>> before parsing
  verification,   \* the PaymentVerification returned by verifyPayment
  outcome,        \* state of the per-request state machine
  status,         \* HTTP status of the response, 0 while none
  body,           \* JSON body of the response
  events,         \* what the invocation did, in order
  hookCalls,      \* the arguments of every onPayment call of the request
  priorAdmitted,  \* the txHashes already admitted when the request arrived
  issuedAt        \* Date.now() when the request's requirement was built

VARIABLES
  fnInput,        \* the arguments of a function called on its own
  fnOutput,       \* what it returned
  fnDone          \* whether it has been called

serverVars == << usedTxHashes, onPayment, pc, method, path, key, header, txHash,
                 verification, outcome, status, body, events, hookCalls,
                 priorAdmitted, issuedAt >>

VARIABLES
  maxRetries,     \* AgentGateConfig.maxRetries ?? 3
  init,           \* the request AgentGateClient.fetch was called with
  cpc,            \* where the call of fetch stands ("idle": no call)
  attempt,        \* the loop variable of fetch
  pastDeadline,   \* whether Date.now() > deadline by now
  balanceRead,    \* how the latest call of getBalance settled
  payment,        \* body.payment of the 402 response being paid
  requests,       \* the HTTP requests the client has sent, in order
  transfers,      \* the transfers handed to sendPayment, in order
  sleeps,         \* the delays of the backoff sleeps, in order
  clientEvents,   \* the PaymentEvents emitted, in order
  result          \* what the call returned or threw

VARIABLES
  mode,             \* which of fetchMany and fetchBatch was called ("": none)
  privy,            \* whether this.privyConfig is set (remote-custody signer)
  batch,            \* the requests fetchMany or fetchBatch was called with
  mpc,              \* where that call stands ("idle": no call)
  initialResponses, \* what each initial request settled to
  paymentTasks,     \* the payable 402s: index, payment, request
  paymentResults,   \* what each task's settlement settled to
  retryResults,     \* what each task's resubmission settled to
  results           \* the vector the call returns

VARIABLES
  stats,            \* the gateway's stats object
  inflight,         \* requests counted by the gateway and not yet answered
  settlements       \* the arguments of every call of the gateway's onPayment

fnVars == << fnInput, fnOutput, fnDone >>

gatewayVars == << stats, inflight, settlements >>

manyVars == << mode, privy, batch, mpc, initialResponses, paymentTasks,
               paymentResults, retryResults, results >>

clientVars == << maxRetries, init, cpc, attempt, pastDeadline, balanceRead, payment, requests,
                 transfers, sleeps, clientEvents, result >>

\* what the middleware does not touch
offServer == << fnVars, clientVars, manyVars, gatewayVars >>

\* what fetch does not touch
offClient == << serverVars, fnVars, manyVars, gatewayVars >>

\* what a function called on its own does not touch
offFn == << serverVars, clientVars, manyVars, gatewayVars >>

\* what fetchMany and fetchBatch do not touch
offMany == << serverVars, fnVars, gatewayVars, maxRetries, init, cpc, attempt, pastDeadline, balanceRead,
              payment, sleeps >>

\* what the gateway's counters do not touch
offGateway == << serverVars, fnVars, clientVars, manyVars >>

vars == << serverVars, fnVars, clientVars, manyVars, gatewayVars >>

NoVerification == Failure("none")

\* a PaymentRequirement with every field absent
NoPayment ==
  [recipientAddress |-> <<>>, tokenAddress |-> <<>>, tokenSymbol |-> "",
   amountRequired |-> <<>>, amountHuman |-> <<>>, endpoint |-> "",
   nonce |-> <<>>, expiry |-> 0, chainId |-> 0, memo |-> <<>>]

\* c.json({ error, details? , payment? }, status)
Json(error, details, requirement) ==
  [error |-> error, details |-> details, payment |-> requirement]

NoBody == Json("", "", NoPayment)

\* loadStats() without a stats file
NoStats ==
  [totalRequests |-> 0, paidRequests |-> 0, totalRevenue |-> 0,
   recentTransactions |-> <<>>]

\* no gateway is running
InitGatewayIdle ==
  /\ stats = NoStats
  /\ inflight = 0
  /\ settlements = <<>>

InitServer ==
  /\ usedTxHashes = {}
  /\ onPayment \in BOOLEAN
  /\ pc = [r \in Slots |-> "idle"]
  /\ method = [r \in Slots |-> ""]
  /\ path = [r \in Slots |-> ""]
  /\ key = [r \in Slots |-> ""]
  /\ header = [r \in Slots |-> NoHeader]
  /\ txHash = [r \in Slots |-> <<>>]
  /\ verification = [r \in Slots |-> NoVerification]
  /\ outcome = [r \in Slots |-> "NONE"]
  /\ status = [r \in Slots |-> 0]
  /\ body = [r \in Slots |-> NoBody]
  /\ events = [r \in Slots |-> <<>>]
  /\ hookCalls = [r \in Slots |-> <<>>]
  /\ priorAdmitted = [r \in Slots |-> {}]
  /\ issuedAt = [r \in Slots |-> 0]

InitFn ==
  /\ fnInput = <<>>
  /\ fnOutput = <<>>
  /\ fnDone = FALSE

NoRequest == [method |-> "", path |-> "", headers |-> <<>>]

NoResult == [kind |-> "none", request |-> 0, status |-> 0, body |-> NoBody,
             error |-> <<>>]

\* no call of fetchMany or fetchBatch is in progress
InitManyIdle ==
  /\ mode = ""
  /\ privy = FALSE
  /\ batch = <<>>
  /\ mpc = "idle"
  /\ initialResponses = <<>>
  /\ paymentTasks = <<>>
  /\ paymentResults = <<>>
  /\ retryResults = <<>>
  /\ results = <<>>

\* no call of the client is in progress
InitClientIdle ==
  /\ InitManyIdle
  /\ maxRetries = 0
  /\ init = NoRequest
  /\ cpc = "idle"
  /\ attempt = 0
  /\ pastDeadline = FALSE
  /\ balanceRead = "none"
  /\ payment = NoPayment
  /\ requests = <<>>
  /\ transfers = <<>>
  /\ sleeps = <<>>
  /\ clientEvents = <<>>
  /\ result = NoResult

Init == InitServer /\ InitGatewayIdle /\ InitFn /\ InitClientIdle

\* ------------------------------------------------------ middleware helpers
UsedHas_never(used, h) == FALSE

\* usedTxHashes.has(txHash)
UsedHas(used, h) == h \in used

MarkUsed_skip(used, h) == used

\* usedTxHashes.add(txHash)
MarkUsed(used, h) == used \cup {h}

IsValid_always(v) == TRUE

\* verification.valid
IsValid(v) == v.valid

HookEnabled_never(configured, from) == FALSE

\* if (onPayment && verification.from)
HookEnabled(configured, from) == configured /\ from # <<>>

\* a header parse that accepts one chain id only
ParseInline_oneChain(h) ==
  LET colonIdx == LastIndexOf(h, ":")
      tx == Slice(h, 0, colonIdx)
      paymentChainId == ParseInt10(Slice(h, colonIdx + 1, Len(h)))
  IN  IF colonIdx = -1 \/ ~StartsWith0x(tx) \/ paymentChainId.nan
         \/ paymentChainId.val # 1
      THEN [isNull |-> TRUE, txHash |-> <<>>, chainId |-> 0,
            error |-> "Invalid X-Payment header format"]
      ELSE [isNull |-> FALSE, txHash |-> tx, chainId |-> paymentChainId.val,
            error |-> ""]

\* the header parse of the middleware: split at the last colon
ParseInline(h) ==
  LET colonIdx == LastIndexOf(h, ":")
      tx == Slice(h, 0, colonIdx)
      paymentChainId == ParseInt10(Slice(h, colonIdx + 1, Len(h)))
  IN  IF colonIdx = -1
      THEN [isNull |-> TRUE, txHash |-> <<>>, chainId |-> 0,
            error |-> "Invalid X-Payment header format. Expected: txHash:chainId"]
      ELSE IF ~StartsWith0x(tx) \/ paymentChainId.nan
      THEN [isNull |-> TRUE, txHash |-> <<>>, chainId |-> 0,
            error |-> "Invalid X-Payment header format"]
      ELSE [isNull |-> FALSE, txHash |-> tx, chainId |-> paymentChainId.val,
            error |-> ""]

\* crypto.randomUUID(): a fresh value at every call, here one per request
RandomUUID(r) == <<"u", DigitChar(r)>>

\* keccak256 as an injective digest: the input under a marker
Keccak256(bytes) == <<"0", "x", "#">> \o bytes

Uint256Width == 4

\* a uint256 in encodePacked: fixed width, left-padded with zeros
RECURSIVE PadLeft(_, _)
PadLeft(s, width) == IF Len(s) >= width THEN s ELSE PadLeft(<<"0">> \o s, width)

\* a bytes32 in encodePacked: the bytes the hex string denotes, whatever the
\* letter case of its digits
HexToBytes(hex) == ToLowerCase(hex)

CreatePaymentMemo_noNonce(endpoint, bodyHash, nonce, expiry) ==
  Keccak256(endpoint \o HexToBytes(bodyHash)
              \o PadLeft(ToDecimalString(expiry), Uint256Width))

\* keccak256(encodePacked(['string','bytes32','string','uint256'], ...)):
\* the packed encoding concatenates the fields without lengths or
\* separators; endpoint and nonce are sequences of characters
CreatePaymentMemo(endpoint, bodyHash, nonce, expiry) ==
  Keccak256(endpoint \o HexToBytes(bodyHash) \o nonce
              \o PadLeft(ToDecimalString(expiry), Uint256Width))

ChallengeExpiry_noWindow(now) == now \div 1000

\* Math.floor(Date.now() / 1000) + expirySeconds
ChallengeExpiry(now) == (now \div 1000) + ExpirySeconds

\* tempoTestnet.id
ChainId == 42431

\* buildPaymentRequirement({amount, endpoint, nonce, expiry, ...}) for the
\* configured recipient, token and chain
BuildPaymentRequirement(amount, k, nonce, expiry) ==
  [recipientAddress |-> RecipientAddress,
   tokenAddress |-> TokenAddress,
   tokenSymbol |-> "pathUSD",
   amountRequired |-> ToDecimalString(ParseUnits(amount, TokenDecimals)),
   amountHuman |-> amount,
   endpoint |-> k,
   nonce |-> nonce,
   expiry |-> expiry,
   chainId |-> ChainId,
   memo |-> CreatePaymentMemo(<<k>>, Keccak256(nonce), nonce, expiry)]

\* the challenge a first request for POST /api/paid is given at 1000 ms
PaidChallenge ==
  BuildPaymentRequirement(Pricing["POST /api/paid"].amount, "POST /api/paid",
                          RandomUUID(1), ChallengeExpiry(1000))

\* The transactions on the chain, keyed by the canonical (lower-case) hash.
\*   TxA: a batch of two transfers to the recipient: 0.01 by
\*        transferWithMemo, with the memo of PaidChallenge, and 0.005
\*   TxB: transfers of another token and to another account, then 0.005
\*   TxC: a reverted transaction
Ledger ==
  [h \in {TxA, TxB, TxC} |->
     CASE h = TxA ->
            [status |-> "success",
             logs |-> << TransferLog(ToLowerCase(TokenAddress), SenderAddress,
                                     RecipientAddress, 10000),
                         TransferWithMemoLog(ToLowerCase(TokenAddress),
                                             SenderAddress, RecipientAddress,
                                             10000, PaidChallenge.memo),
                         TransferLog(ToLowerCase(TokenAddress), SenderAddress,
                                     RecipientAddress, 5000) >>]
       [] h = TxB ->
            [status |-> "success",
             logs |-> << TransferLog(OtherTokenAddress, SenderAddress,
                                     RecipientAddress, 10000),
                         TransferLog(TokenAddress, SenderAddress,
                                     OtherAddress, 10000),
                         TransferLog(TokenAddress, OtherAddress,
                                     ToLowerCase(RecipientAddress), 5000) >>]
       [] OTHER ->
            [status |-> "reverted",
             logs |-> << TransferLog(TokenAddress, SenderAddress,
                                     RecipientAddress, 10000) >>]]

\* the receipt of a transfer the client's signer had confirmed: transfer()
\* logs Transfer, transferWithMemo() logs Transfer and TransferWithMemo
TransferReceipt(t) ==
  [status |-> "success",
   logs |-> IF t.memo # <<>>
            THEN << TransferLog(t.tokenAddress, SenderAddress, t.to, t.amount),
                    TransferWithMemoLog(t.tokenAddress, SenderAddress, t.to,
                                        t.amount, t.memo) >>
            ELSE << TransferLog(t.tokenAddress, SenderAddress, t.to, t.amount) >>]

ConfirmedAs(hash) ==
  {i \in DOMAIN transfers :
     transfers[i].state = "confirmed" /\ transfers[i].txHash = ToLowerCase(hash)}

\* eth_getTransactionReceipt: the node decodes the hex hash, so the lookup
\* does not depend on the letter case of the digits
OnChain(hash) ==
  ToLowerCase(hash) \in DOMAIN Ledger \/ ConfirmedAs(hash) # {}

ReceiptOf(hash) ==
  IF ToLowerCase(hash) \in DOMAIN Ledger
  THEN Ledger[ToLowerCase(hash)]
  ELSE TransferReceipt(transfers[CHOOSE i \in ConfirmedAs(hash) : TRUE])

\* a requirement that keeps the nonce and the memo of the endpoint's challenge
Requirement_withMemo(k, now) ==
  [recipientAddress |-> RecipientAddress,
   tokenAddress |-> TokenAddress,
   amountRequired |-> ToDecimalString(ParseUnits(Pricing[k].amount, TokenDecimals)),
   endpoint |-> k,
   nonce |-> RandomUUID(1),
   expiry |-> ChallengeExpiry(now),
   memo |-> BuildPaymentRequirement(Pricing[k].amount, k, RandomUUID(1),
                                    ChallengeExpiry(1000)).memo]

\* the requirement of a challenge issued at 1000 ms, kept for verification
Requirement_stored(k, now) ==
  [recipientAddress |-> RecipientAddress,
   tokenAddress |-> TokenAddress,
   amountRequired |-> ToDecimalString(ParseUnits(Pricing[k].amount, TokenDecimals)),
   endpoint |-> k,
   nonce |-> <<>>,
   expiry |-> ChallengeExpiry(1000),
   memo |-> ZERO_MEMO]

\* the requirement the middleware rebuilds for verification
Requirement(k, now) ==
  [recipientAddress |-> RecipientAddress,
   tokenAddress |-> TokenAddress,
   amountRequired |-> ToDecimalString(ParseUnits(Pricing[k].amount, TokenDecimals)),
   endpoint |-> k,
   nonce |-> <<>>,
   expiry |-> ChallengeExpiry(now),
   memo |-> ZERO_MEMO]

FailureStatus_serverError(v) ==
  IF v.error = "Verification failed" THEN 500 ELSE 402

\* the status of c.json({ error: 'Payment verification failed', ... }, 402)
FailureStatus(v) == 402

\* { error: 'Payment verification failed', details: verification.error }
FailureBody(v) == Json("Payment verification failed", v.error, NoPayment)

Finish(r, out, st, b, evs) ==
  /\ pc' = [pc EXCEPT ![r] = "done"]
  /\ outcome' = [outcome EXCEPT ![r] = out]
  /\ status' = [status EXCEPT ![r] = st]
  /\ body' = [body EXCEPT ![r] = b]
  /\ events' = [events EXCEPT ![r] = events[r] \o evs]

\* ----------------------------------------------------------------- actions
\* A request arrives; the middleware runs up to its first await.
Arrive(r, m, p, h) ==
  /\ pc[r] = "idle"
  /\ \A q \in Slots : q < r => pc[q] # "idle"
  /\ method' = [method EXCEPT ![r] = m]
  /\ path' = [path EXCEPT ![r] = p]
  /\ key' = [key EXCEPT ![r] = KeyOf(m, p)]
  /\ header' = [header EXCEPT ![r] = h]
  /\ priorAdmitted' = [priorAdmitted EXCEPT ![r] =
       {txHash[q] : q \in {s \in Slots : outcome[s] = "ADMITTED"}}]
  /\ UNCHANGED << usedTxHashes, onPayment, hookCalls, offServer >>
  /\ LET k == KeyOf(m, p)
         parsed == ParseInline(h)
         tx == parsed.txHash
     IN  IF ~HasPrice(k)
         THEN /\ Finish(r, "UNPRICED", 200, NoBody, <<"handler">>)
              /\ UNCHANGED << txHash, verification, issuedAt >>
         ELSE IF h = NoHeader
         THEN \E now \in Clock :
              /\ issuedAt' = [issuedAt EXCEPT ![r] = now]
              /\ Finish(r, "CHALLENGE_ISSUED", 402,
                        Json("Payment Required", "",
                             BuildPaymentRequirement(Pricing[k].amount, k,
                                                     RandomUUID(r),
                                                     ChallengeExpiry(now))),
                        <<>>)
              /\ UNCHANGED << txHash, verification >>
         ELSE IF parsed.isNull
         THEN /\ Finish(r, "HEADER_MALFORMED", 400,
                        Json(parsed.error, "", NoPayment), <<>>)
              /\ UNCHANGED << txHash, verification, issuedAt >>
         ELSE IF UsedHas(usedTxHashes, tx)
         THEN /\ Finish(r, "REPLAY", 409,
                        Json("Transaction already used for a previous request",
                             "", NoPayment), <<>>)
              /\ txHash' = [txHash EXCEPT ![r] = tx]
              /\ UNCHANGED << verification, issuedAt >>
         ELSE \E now \in RetryClock : \E later \in {now, now + 1} :
              /\ txHash' = [txHash EXCEPT ![r] = tx]
              /\ issuedAt' = [issuedAt EXCEPT ![r] = now]
              /\ UNCHANGED << outcome, status, body >>
              /\ IF IsExpired(later, Requirement(k, now).expiry)
                 THEN /\ pc' = [pc EXCEPT ![r] = "verified"]
                      /\ verification' =
                           [verification EXCEPT ![r] =
                              Failure("Payment requirement expired")]
                      /\ UNCHANGED events
                 ELSE /\ pc' = [pc EXCEPT ![r] = "awaitReceipt"]
                      /\ events' = [events EXCEPT ![r] = <<"ledger_read">>]
                      /\ UNCHANGED verification

\* client.getTransactionReceipt resolves; verifyPayment runs to its return
RpcReturns(r) ==
  /\ pc[r] = "awaitReceipt"
  /\ OnChain(txHash[r])
  /\ verification' = [verification EXCEPT ![r] =
       VerifyReceipt(ReceiptOf(txHash[r]), Requirement(key[r], 0))]
  /\ pc' = [pc EXCEPT ![r] = "verified"]
  /\ UNCHANGED << usedTxHashes, onPayment, method, path, key, header, txHash, outcome,
                  status, body, events, hookCalls, priorAdmitted, issuedAt,
                  offServer >>

\* client.getTransactionReceipt rejects (node unreachable, receipt not
\* found); the catch of verifyPayment turns it into a failed verification
RpcFails(r) ==
  /\ pc[r] = "awaitReceipt"
  /\ verification' = [verification EXCEPT ![r] = Failure("Verification failed")]
  /\ pc' = [pc EXCEPT ![r] = "verified"]
  /\ UNCHANGED << usedTxHashes, onPayment, method, path, key, header, txHash, outcome,
                  status, body, events, hookCalls, priorAdmitted, issuedAt,
                  offServer >>

\* the middleware resumes after `await verifyPayment(...)`
Continue(r) ==
  /\ pc[r] = "verified"
  /\ UNCHANGED << onPayment, method, path, key, header, txHash, verification,
                  priorAdmitted, issuedAt, offServer >>
  /\ IF ~IsValid(verification[r])
     THEN /\ Finish(r, "REJECTED", FailureStatus(verification[r]),
                    FailureBody(verification[r]), <<>>)
          /\ UNCHANGED << usedTxHashes, hookCalls >>
     ELSE /\ usedTxHashes' = MarkUsed(usedTxHashes, txHash[r])
          /\ IF HookEnabled(onPayment, verification[r].from)
             THEN /\ hookCalls' = [hookCalls EXCEPT ![r] = Append(@,
                       [from |-> verification[r].from,
                        amount |-> verification[r].amount,
                        txHash |-> txHash[r],
                        endpoint |-> key[r]])]
                  /\ pc' = [pc EXCEPT ![r] = "awaitHook"]
                  /\ events' = [events EXCEPT ![r] = @ \o <<"mark_used", "hook">>]
                  /\ UNCHANGED << outcome, status, body >>
             ELSE /\ Finish(r, "ADMITTED", 200, NoBody, <<"mark_used", "handler">>)
                  /\ UNCHANGED hookCalls

\* the promise of onPayment fulfils: c.set('payment'), return next()
HookResolves(r) ==
  /\ pc[r] = "awaitHook"
  /\ Finish(r, "ADMITTED", 200, NoBody, <<"handler">>)
  /\ UNCHANGED << usedTxHashes, onPayment, method, path, key, header, txHash, verification,
                  hookCalls, priorAdmitted, issuedAt, offServer >>

\* onPayment throws or its promise rejects: the exception leaves the
\* middleware and next() is never reached
HookRejects(r) ==
  /\ pc[r] = "awaitHook"
  /\ Finish(r, "ERROR", 500, Json("Internal Server Error", "", NoPayment),
            <<"hook_rejected">>)
  /\ UNCHANGED << usedTxHashes, onPayment, method, path, key, header, txHash, verification,
                  hookCalls, priorAdmitted, issuedAt, offServer >>

Next ==
  \/ \E r \in Slots, m \in Methods, p \in Paths, h \in Headers : Arrive(r, m, p, h)
  \/ \E r \in Slots : RpcReturns(r)
  \/ \E r \in Slots : RpcFails(r)
  \/ \E r \in Slots : Continue(r)
  \/ \E r \in Slots : HookResolves(r)
  \/ \E r \in Slots : HookRejects(r)

Spec == Init /\ [][Next]_vars

\* ================================================================== claims
\* The endpoints the pricing table lists, and their prices in smallest units
\* (display price times 10^6).
PricedEndpoints == {<<"POST", "/api/chat">>, <<"POST", "/api/paid">>}

PricedRequest(r) == pc[r] # "idle" /\ <<method[r], path[r]>> \in PricedEndpoints

RequiredUnits(r) == IF path[r] = "/api/chat" THEN 5000 ELSE 10000

Range(f) == {f[i] : i \in DOMAIN f}

AllDigits(s) == s # <<>> /\ \A i \in 1..Len(s) : s[i] \in Digits

\* header h has the form <t>:<decimal chainId>
Carries(h, t) ==
  /\ Len(h) > Len(t) + 1
  /\ SubSeq(h, 1, Len(t)) = t
  /\ h[Len(t) + 1] = ":"
  /\ AllDigits(SubSeq(h, Len(t) + 2, Len(h)))

\* a log of the receipt that pays the recipient in the required token
PaysRecipient(log) ==
  /\ ToLowerCase(log.address) = ToLowerCase(TokenAddress)
  /\ log.event \in {"Transfer", "TransferWithMemo"}
  /\ ToLowerCase(log.to) = ToLowerCase(RecipientAddress)

\* C1: no two admitted requests to priced endpoints share a txHash; of the
\* requests carrying one txHash exactly one is admitted.
C1_OneAdmissionPerTxHash ==
  \A r, q \in Slots :
    (r # q /\ outcome[r] = "ADMITTED" /\ outcome[q] = "ADMITTED")
      => txHash[r] # txHash[q]

\* C2: a priced request that arrives after a request with txHash T was
\* admitted and carries T is answered 409 at once: no ledger read, no hook,
\* no handler.
C2_LaterReplayRejected ==
  \A r \in Slots :
    (PricedRequest(r) /\ \E t \in priorAdmitted[r] : Carries(header[r], t))
      => /\ pc[r] = "done"
         /\ status[r] = 409
         /\ outcome[r] = "REPLAY"
         /\ events[r] = <<>>
         /\ hookCalls[r] = <<>>

C2_Witness ==
  \E r \in Slots :
    /\ status[r] = 409
    /\ txHash[r] \in priorAdmitted[r]
    /\ path[r] = "/api/paid"

\* C3: when the handler of a priced endpoint has been invoked, the
\* transaction of the header has a successful receipt with a log of the token
\* paying the recipient at least the endpoint's price, and the txHash is in
\* the used-reference set.
C3_AdmittedImpliesPaid ==
  \A r \in Slots :
    (PricedRequest(r) /\ "handler" \in Range(events[r]))
      => /\ OnChain(txHash[r])
         /\ ReceiptOf(txHash[r]).status = "success"
         /\ \E i \in 1..Len(ReceiptOf(txHash[r]).logs) :
              /\ PaysRecipient(ReceiptOf(txHash[r]).logs[i])
              /\ ReceiptOf(txHash[r]).logs[i].value >= RequiredUnits(r)
         /\ txHash[r] \in usedTxHashes

C3_Witness ==
  \E r \in Slots :
    /\ PricedRequest(r)
    /\ "handler" \in Range(events[r])
    /\ ToLowerCase(txHash[r]) = TxB

\* C4: in every admission the txHash enters the used-reference set before
\* the hook is invoked and before the handler is invoked.
C4_MarkedBeforeHookAndHandler ==
  \A r \in Slots :
    PricedRequest(r) =>
      \A i \in 1..Len(events[r]) :
        events[r][i] \in {"hook", "handler"}
          => /\ \E j \in 1..(i - 1) : events[r][j] = "mark_used"
             /\ txHash[r] \in usedTxHashes

C4_Witness ==
  \E r \in Slots :
    /\ pc[r] = "awaitHook"
    /\ Len(hookCalls[r]) = 1
    /\ txHash[r] \in usedTxHashes

\* C5: the used-reference set changes only by gaining the txHash of a request
\* whose verification succeeded; nothing is ever removed.
C5_UsedSetOnlyGrowsOnVerified ==
  [][ usedTxHashes' # usedTxHashes =>
        \E r \in Slots :
          /\ pc[r] = "verified"
          /\ pc'[r] # "verified"
          /\ verification[r].valid
          /\ usedTxHashes' = usedTxHashes \cup {txHash[r]} ]_vars

C5_Witness ==
  /\ usedTxHashes # {}
  /\ \E r \in Slots : outcome[r] = "REJECTED" /\ txHash[r] \notin usedTxHashes

\* C6: requests to priced endpoints that all carry the hash of one batch
\* transaction whose transfers cover their prices are all admitted.
BatchHeader == TxA \o Colon1

BatchRequest(r) ==
  /\ PricedRequest(r)
  /\ header[r] = BatchHeader
  /\ pc[r] = "done"
  /\ verification[r].error # "Verification failed"
  /\ outcome[r] # "ERROR"

C6_BatchAllAdmitted ==
  \A r, q \in Slots :
    (r # q /\ BatchRequest(r) /\ BatchRequest(q)
       /\ (path[r] = "/api/chat" \/ path[q] = "/api/chat"))
      => (outcome[r] = "ADMITTED" /\ outcome[q] = "ADMITTED")

\* C7: a priced request whose txHash differs only in letter case from a
\* txHash admitted before it arrived is answered 409 and is not admitted.
C7_CaseInsensitiveReplay ==
  \A r \in Slots :
    ( /\ PricedRequest(r)
      /\ pc[r] = "done"
      /\ verification[r].error # "Verification failed"
      /\ \E t \in priorAdmitted[r] :
           t # txHash[r] /\ ToLowerCase(t) = ToLowerCase(txHash[r]) )
      => (status[r] = 409 /\ outcome[r] # "ADMITTED")

\* C8: a verified request whose hook threw or rejected is still admitted:
\* the handler is invoked and the response is the handler's.
C8_HookFailureStillAdmits ==
  \A r \in Slots :
    (pc[r] = "done" /\ "hook_rejected" \in Range(events[r]))
      => /\ "handler" \in Range(events[r])
         /\ outcome[r] = "ADMITTED"
         /\ status[r] # 500

\* C9: with a hook configured, an admitted request has exactly one hook call,
\* made with the sender and value of a transfer of the receipt that pays the
\* recipient, the request's txHash and its "METHOD path" key; a request that
\* ends unpriced, challenged, malformed, replay or rejected has none.
C9_HookOncePerAdmission ==
  onPayment =>
    \A r \in Slots :
      /\ outcome[r] = "ADMITTED" =>
           /\ Len(hookCalls[r]) = 1
           /\ hookCalls[r][1].txHash = txHash[r]
           /\ Carries(header[r], hookCalls[r][1].txHash)
           /\ hookCalls[r][1].endpoint = method[r] \o " " \o path[r]
           /\ \E i \in 1..Len(ReceiptOf(txHash[r]).logs) :
                /\ PaysRecipient(ReceiptOf(txHash[r]).logs[i])
                /\ ReceiptOf(txHash[r]).logs[i].from = hookCalls[r][1].from
                /\ ReceiptOf(txHash[r]).logs[i].value = hookCalls[r][1].amount
                /\ hookCalls[r][1].amount >= RequiredUnits(r)
      /\ outcome[r] \in {"UNPRICED", "CHALLENGE_ISSUED", "HEADER_MALFORMED",
                         "REPLAY", "REJECTED"}
           => hookCalls[r] = <<>>

C9_Witness ==
  \E r, q \in Slots :
    /\ outcome[r] = "ADMITTED"
    /\ Len(hookCalls[r]) = 1
    /\ hookCalls[r][1].amount = 5000
    /\ outcome[q] = "REJECTED"

\* C10: a request whose "METHOD path" is not in the pricing table goes
\* straight to the handler: no 402, no ledger read, no change of the
\* used-reference set, with or without an X-Payment header.
C10_UnpricedPassesThrough ==
  [][ \A r \in Slots :
        ( /\ pc[r] = "idle"
          /\ pc'[r] # "idle"
          /\ <<method'[r], path'[r]>> \notin PricedEndpoints )
          => /\ pc'[r] = "done"
             /\ outcome'[r] = "UNPRICED"
             /\ status'[r] = 200
             /\ events'[r] = <<"handler">>
             /\ usedTxHashes' = usedTxHashes ]_vars

C10_Witness ==
  \E r \in Slots :
    /\ outcome[r] = "UNPRICED"
    /\ method[r] = "GET"
    /\ path[r] = "/api/chat"
    /\ header[r] = TxA \o Colon1
    /\ "handler" \in Range(events[r])

\* C11: a request whose `METHOD path` key is priced and that carries no
\* X-Payment header is answered 402 with a challenge whose amountRequired is
\* the price times 10^decimals, whose recipientAddress is the configured
\* recipient and whose expiry is the issuance time (in seconds) plus the
\* validity window; the handler is not invoked and the ledger is not read.
C11_ChallengeOnMissingHeader ==
  \A r \in Slots :
    (PricedRequest(r) /\ header[r] = NoHeader) =>
      /\ pc[r] = "done"
      /\ outcome[r] = "CHALLENGE_ISSUED"
      /\ status[r] = 402
      /\ AllDigits(body[r].payment.amountRequired)
      /\ BigInt(body[r].payment.amountRequired) = RequiredUnits(r)
      /\ body[r].payment.recipientAddress = RecipientAddress
      /\ body[r].payment.expiry = (issuedAt[r] \div 1000) + ExpirySeconds
      /\ "handler" \notin Range(events[r])
      /\ "ledger_read" \notin Range(events[r])

C11_Witness ==
  \E r, q \in Slots :
    /\ PricedRequest(r) /\ header[r] = NoHeader /\ status[r] = 402
    /\ path[r] = "/api/paid" /\ body[r].payment.expiry = 302
    /\ PricedRequest(q) /\ header[q] = NoHeader /\ status[q] = 402
    /\ path[q] = "/api/chat" /\ body[q].payment.expiry = 301

\* C13: when the ledger read of a verification fails (node unreachable,
\* receipt not found, log that does not decode), the middleware answers 402,
\* never a 5xx and never an unhandled exception; the handler is not invoked
\* and the transaction is not marked used, so the request can be resubmitted.
C13_LedgerFailureIs402 ==
  \A r \in Slots :
    (pc[r] = "done" /\ verification[r].error = "Verification failed") =>
      /\ outcome[r] = "REJECTED"
      /\ status[r] = 402
      /\ "handler" \notin Range(events[r])
      /\ "mark_used" \notin Range(events[r])
      /\ (\A q \in Slots : "mark_used" \in Range(events[q])
                               => txHash[q] # txHash[r])
           => txHash[r] \notin usedTxHashes

C13_Witness ==
  \E r, q \in Slots :
    /\ pc[r] = "done" /\ verification[r].error = "Verification failed"
    /\ status[r] = 402
    /\ r < q /\ header[q] = header[r] /\ key[q] = key[r]
    /\ outcome[q] = "ADMITTED"

\* ============================================ the header parsers on their own
MaxHeaderLen == 5

HeaderAlphabet == {"0", "x", "a", ":", "1", "z"}

ParsePaymentHeader_lowerCase(h) ==
  LET first == IndexOf(h, ":")
      chainId == ParseInt10(Slice(h, first + 1, Len(h)))
  IN  IF first = -1 \/ chainId.nan
      THEN [isNull |-> TRUE, txHash |-> <<>>, chainId |-> 0]
      ELSE [isNull |-> FALSE, txHash |-> ToLowerCase(Slice(h, 0, first)),
            chainId |-> chainId.val]

\* parsePaymentHeader of @agentgate/core: header.split(':'), parts[0] and
\* parts[1], parseInt and startsWith
ParsePaymentHeader(h) ==
  LET first == IndexOf(h, ":")
      rest == Slice(h, first + 1, Len(h))
      second == IndexOf(rest, ":")
      part0 == Slice(h, 0, first)
      part1 == IF second = -1 THEN rest ELSE Slice(rest, 0, second)
      chainId == ParseInt10(part1)
  IN  IF first = -1
      THEN [isNull |-> TRUE, txHash |-> <<>>, chainId |-> 0]
      ELSE IF ~StartsWith0x(part0) \/ chainId.nan
      THEN [isNull |-> TRUE, txHash |-> <<>>, chainId |-> 0]
      ELSE [isNull |-> FALSE, txHash |-> part0, chainId |-> chainId.val]

\* every X-Payment value over the alphabet, up to the length bound
InitParse ==
  /\ InitServer
  /\ InitGatewayIdle
  /\ InitClientIdle
  /\ \E n \in 0..MaxHeaderLen : fnInput \in [1..n -> HeaderAlphabet]
  /\ fnOutput = <<>>
  /\ fnDone = FALSE

\* parsePaymentHeader(header)
CallParse ==
  /\ ~fnDone
  /\ fnOutput' = ParsePaymentHeader(fnInput)
  /\ fnDone' = TRUE
  /\ UNCHANGED << fnInput, offFn >>

\* the same value arrives as the X-Payment header of a priced request
ArriveWithHeader ==
  /\ fnDone
  /\ \E p \in Paths : Arrive(1, "POST", p, fnInput)

NextParse ==
  \/ CallParse
  \/ ArriveWithHeader
  \/ \E r \in Slots : RpcReturns(r)
  \/ \E r \in Slots : RpcFails(r)
  \/ \E r \in Slots : Continue(r)
  \/ \E r \in Slots : HookResolves(r)
  \/ \E r \in Slots : HookRejects(r)

SpecParse == InitParse /\ [][NextParse]_vars

\* h does not have the form <txHash>:<chainId>: no colon, or the part before
\* the last colon does not start with 0x, or the part after it is not a
\* decimal integer
Malformed(h) ==
  LET colonIdx == LastIndexOf(h, ":")
  IN  \/ colonIdx = -1
      \/ ~StartsWith0x(Slice(h, 0, colonIdx))
      \/ ~AllDigits(Slice(h, colonIdx + 1, Len(h)))

\* C12: an X-Payment value that lacks a colon, whose txHash part lacks the 0x
\* prefix or whose chainId part is not a decimal integer is rejected:
\* parsePaymentHeader returns null, and the middleware answers a priced
\* request carrying it with 400, reading no ledger, leaving the used set
\* alone and not invoking the handler.
C12_MalformedHeaderRejected ==
  Malformed(fnInput) =>
    /\ fnDone => fnOutput.isNull
    /\ pc[1] # "idle" =>
         /\ pc[1] = "done"
         /\ status[1] = 400
         /\ events[1] = <<>>
         /\ usedTxHashes = {}

\* ================================================ verifyPayment on its own
MaxLogs == 2

MemoA == <<"0", "x", "A", "1">>
MemoB == <<"0", "x", "b", "2">>

\* a log of the token that decodes under neither event ABI
ApprovalLog ==
  [address |-> TokenAddress, event |-> "Approval", from |-> SenderAddress,
   to |-> RecipientAddress, value |-> 0, memo |-> <<>>]

\* the logs a receipt may hold, around a required amount: transfers of
\* another token and to another account, an undecodable log, and transfers
\* to the recipient of one unit less, exactly, and one unit more
SampleLogs(required) ==
  { TransferLog(OtherTokenAddress, SenderAddress, RecipientAddress, required),
    TransferLog(TokenAddress, SenderAddress, OtherAddress, required),
    ApprovalLog }
  \cup { TransferLog(TokenAddress, SenderAddress, RecipientAddress, v) :
           v \in {required - 1, required, required + 1} }
  \cup { TransferWithMemoLog(TokenAddress, SenderAddress, RecipientAddress, v,
                              MemoA) :
           v \in {required - 1, required, required + 1} }
  \cup { TransferWithMemoLog(TokenAddress, SenderAddress, RecipientAddress, v,
                              MemoB) :
           v \in {required - 1, required} }

\* Date.now() inside verifyPayment, for a requirement built at 1000 ms
VerifyClock == {1000, 301000, 301001}

\* verifyPayment: expiry check, receipt fetch inside try/catch, then the
\* checks on the receipt
VerifyPayment(now, requirement, rpcOk, receipt) ==
  IF IsExpired(now, requirement.expiry)
  THEN Failure("Payment requirement expired")
  ELSE IF ~rpcOk THEN Failure("Verification failed")
  ELSE VerifyReceipt(receipt, requirement)

\* the arguments of verifyPayment and the answer of the node
InitVerify ==
  /\ InitServer
  /\ InitGatewayIdle
  /\ InitClientIdle
  /\ onPayment = FALSE
  /\ \E k \in DOMAIN Pricing, now \in VerifyClock,
        memo \in {ZERO_MEMO, ToLowerCase(MemoA)}, ok \in BOOLEAN,
        st \in {"success", "reverted"}, n \in 0..MaxLogs :
       \E ls \in [1..n -> SampleLogs(ParseUnits(Pricing[k].amount, TokenDecimals))] :
         fnInput = [now |-> now,
                    requirement |-> [Requirement(k, 1000) EXCEPT !.memo = memo],
                    rpcOk |-> ok,
                    receipt |-> [status |-> st, logs |-> ls]]
  /\ fnOutput = <<>>
  /\ fnDone = FALSE

\* const verification = await verifyPayment(...), and the response the
\* middleware builds from it when it is not valid
CallVerify ==
  /\ ~fnDone
  /\ LET v == VerifyPayment(fnInput.now, fnInput.requirement, fnInput.rpcOk,
                            fnInput.receipt)
     IN  fnOutput' = [verification |-> v,
                      status |-> IF IsValid(v) THEN 200 ELSE FailureStatus(v),
                      body |-> IF IsValid(v) THEN NoBody ELSE FailureBody(v)]
  /\ fnDone' = TRUE
  /\ UNCHANGED << fnInput, offFn >>

NextVerify == CallVerify

SpecVerify == InitVerify /\ [][NextVerify]_vars

\* Why a verification of the given arguments fails, read off the arguments:
\* the first of expired requirement, failed ledger read, reverted
\* transaction, no transfer of the token to the recipient, transfer below
\* the required amount; "" when none of the five applies.
SelectedLog(in) ==
  LET pays(l, ev) == /\ l.event = ev
                     /\ ToLowerCase(l.address) = ToLowerCase(TokenAddress)
                     /\ ToLowerCase(l.to) = ToLowerCase(RecipientAddress)
      ls == in.receipt.logs
      firstOf(ev) == IF \E i \in 1..Len(ls) : pays(ls[i], ev)
                     THEN CHOOSE i \in 1..Len(ls) :
                            /\ pays(ls[i], ev)
                            /\ \A j \in 1..(i - 1) : ~pays(ls[j], ev)
                     ELSE 0
  IN  IF firstOf("TransferWithMemo") # 0 THEN firstOf("TransferWithMemo")
      ELSE firstOf("Transfer")

FailureCause(in) ==
  IF in.now > in.requirement.expiry * 1000 THEN "PAYMENT_EXPIRED"
  ELSE IF ~in.rpcOk THEN "RPC_UNAVAILABLE"
  ELSE IF in.receipt.status # "success" THEN "TX_REVERTED"
  ELSE IF SelectedLog(in) = 0 THEN "NO_MATCH"
  ELSE IF in.receipt.logs[SelectedLog(in)].value
            < DigitsValue(in.requirement.amountRequired) THEN "INSUFFICIENT"
  ELSE ""

\* the message the code reports for each cause
MessageOf(cause) ==
  CASE cause = "PAYMENT_EXPIRED" -> "Payment requirement expired"
    [] cause = "RPC_UNAVAILABLE" -> "Verification failed"
    [] cause = "TX_REVERTED" -> "Transaction failed on-chain"
    [] cause = "NO_MATCH" -> "No matching Transfer event found"
    [] cause = "INSUFFICIENT" -> "Insufficient payment"
    [] OTHER -> "Memo mismatch"

C16_InsufficientIffBelow ==
  (/\ fnDone
   /\ FailureCause(fnInput) \in {"", "INSUFFICIENT"}) =>
    LET value == fnInput.receipt.logs[SelectedLog(fnInput)].value
        required == DigitsValue(fnInput.requirement.amountRequired)
    IN  /\ value \in {required - 1, required, required + 1}
        /\ (fnOutput.verification.error = "Insufficient payment") <=> (value < required)
        /\ value < required => ~fnOutput.verification.valid
        /\ value >= required =>
             \/ fnOutput.verification.valid
             \/ fnOutput.verification.error = "Memo mismatch"

C16_Witness ==
  /\ fnDone
  /\ FailureCause(fnInput) = ""
  /\ fnInput.receipt.logs[SelectedLog(fnInput)].value
       = DigitsValue(fnInput.requirement.amountRequired)
  /\ fnInput.requirement.endpoint = "POST /api/paid"
  /\ fnOutput.verification.valid
  /\ fnOutput.verification.amount = 10000

\* ===================================================== AgentGateClient.fetch
\* The call of fetch is one sequential process; it is suspended at the awaits
\* (the two HTTP requests, the balance read, sendPayment, the backoff sleep)
\* and each action runs it from one await to the next.

\* Headers objects: functions from header name to value
SetHeader(headers, name, value) ==
  [n \in DOMAIN headers \cup {name} |-> IF n = name THEN value ELSE headers[n]]

GetHeader(headers, name) ==
  IF name \in DOMAIN headers THEN headers[name] ELSE NoHeader

\* `${txHash}:${this.chain.id}`
PaymentHeader_hashOnly(hash, chainId) == hash

PaymentHeader(hash, chainId) == hash \o <<":">> \o ToDecimalString(chainId)

\* err.message.includes(phrase); a message is a sequence of text fragments
Includes(message, phrase) == \E i \in DOMAIN message : message[i] = phrase

InsufficientBalanceError == <<"Insufficient balance", ": have less than needed">>
Invalid402Error == <<"Invalid 402", " response: missing payment requirements">>
TimeoutError == <<"AgentGate fetch timed out">>
ExhaustedError == <<"AgentGate fetch failed after all retries">>
\* what fetch, response.json(), BigInt and sendPayment throw
TransportError == <<"fetch failed">>
SyntaxError == <<"Unexpected token">>
SignerError == <<"transaction failed">>

\* PaymentEvent, with the one field of each type the claims look at
Event(type, arg) == [type |-> type, arg |-> arg]

RECURSIVE Pow2(_)
Pow2(n) == IF n = 0 THEN 1 ELSE 2 * Pow2(n - 1)

Min(a, b) == IF a < b THEN a ELSE b

Backoff_uncapped(n) == 1000 * Pow2(n)

\* Math.min(1000 * 2 ** attempt, 10000)
Backoff(n) == Min(1000 * Pow2(n), 10000)

CanRetry_always(err, n, limit) == TRUE

\* the negation of the test of the catch block: the error is neither
\* 'Insufficient balance' nor 'Invalid 402' and attempts remain
CanRetry(err, n, limit) ==
  /\ ~Includes(err, "Insufficient balance")
  /\ ~Includes(err, "Invalid 402")
  /\ ~(n >= limit)

Returned(request, resp) ==
  [kind |-> "response", request |-> request, status |-> resp.status,
   body |-> resp.body, error |-> <<>>]

Thrown(err) ==
  [kind |-> "error", request |-> 0, status |-> 0, body |-> NoBody, error |-> err]

\* a throw that leaves fetch
Fail(err, emitted) ==
  /\ cpc' = "failed"
  /\ result' = Thrown(err)
  /\ clientEvents' = clientEvents \o emitted
  /\ UNCHANGED sleeps

\* a throw inside the try block: the catch rethrows or backs off
Catch(err, emitted) ==
  IF ~CanRetry(err, attempt, maxRetries)
  THEN Fail(err, emitted)
  ELSE /\ cpc' = "sleeping"
       /\ clientEvents' = clientEvents \o emitted
                            \o <<Event("retrying", attempt + 1)>>
       /\ sleeps' = Append(sleeps, Backoff(attempt))
       /\ UNCHANGED result

\* the top of the loop for attempt number n: the loop test, the deadline
\* test and the first request of the attempt
LoopTop(n) ==
  /\ attempt' = n
  /\ UNCHANGED << maxRetries, init, pastDeadline, balanceRead, payment, transfers, offClient >>
  /\ IF ~(n <= maxRetries)
     THEN Fail(ExhaustedError, <<>>) /\ UNCHANGED requests
     ELSE IF pastDeadline
     THEN Fail(TimeoutError, <<>>) /\ UNCHANGED requests
     ELSE /\ requests' = Append(requests, init)
          /\ cpc' = "awaitInitial"
          /\ UNCHANGED << result, clientEvents, sleeps >>

\* fetch(url, init) is called
Call ==
  /\ cpc = "called"
  /\ LoopTop(0)

\* the backoff sleep is over: attempt++ and the next turn of the loop
Wake ==
  /\ cpc = "sleeping"
  /\ LoopTop(attempt + 1)

\* time passes the deadline while the call is suspended
DeadlinePasses ==
  /\ cpc \in {"awaitInitial", "awaitBalance", "awaitPayment", "awaitRetry",
              "sleeping"}
  /\ ~pastDeadline
  /\ pastDeadline' = TRUE
  /\ UNCHANGED << maxRetries, init, cpc, attempt, balanceRead, payment, requests, transfers,
                  sleeps, clientEvents, result, offClient >>

HasPaymentFields(pay) ==
  /\ pay.recipientAddress # <<>>
  /\ pay.amountRequired # <<>>
  /\ pay.tokenAddress # <<>>

\* the first request of the attempt is answered
InitialResponse(resp) ==
  /\ cpc = "awaitInitial"
  /\ UNCHANGED << maxRetries, init, attempt, pastDeadline, balanceRead, requests, transfers,
                  offClient >>
  /\ IF resp.status # 402
     THEN /\ cpc' = "returned"
          /\ result' = Returned(Len(requests), resp)
          /\ UNCHANGED << payment, sleeps, clientEvents >>
     ELSE IF ~resp.json
     THEN Catch(SyntaxError, <<>>) /\ UNCHANGED payment
     ELSE IF ~HasPaymentFields(resp.body.payment)
     THEN Catch(Invalid402Error, <<>>) /\ UNCHANGED payment
     ELSE /\ payment' = resp.body.payment
          /\ IF ~AllDigits(resp.body.payment.amountRequired)
             THEN Catch(SyntaxError,
                        <<Event("payment_required", resp.body.payment.amountHuman)>>)
             ELSE /\ cpc' = "awaitBalance"
                  /\ clientEvents' = Append(clientEvents,
                       Event("payment_required", resp.body.payment.amountHuman))
                  /\ UNCHANGED << result, sleeps >>

\* the first request of the attempt fails in the transport
InitialFails ==
  /\ cpc = "awaitInitial"
  /\ Catch(TransportError, <<>>)
  /\ UNCHANGED << maxRetries, init, attempt, pastDeadline, balanceRead, payment, requests,
                  transfers, offClient >>

\* sendPayment called without the event before it
SendPayment_silent ==
  /\ cpc' = "awaitPayment"
  /\ transfers' = Append(transfers,
       [to |-> payment.recipientAddress,
        tokenAddress |-> payment.tokenAddress,
        amount |-> BigInt(payment.amountRequired),
        memo |-> payment.memo,
        tx |-> Len(transfers) + 1,
        state |-> "sent",
        txHash |-> <<>>])
  /\ UNCHANGED << clientEvents, result, sleeps >>

\* emit payment_sending and call sendPayment
SendPayment ==
  /\ cpc' = "awaitPayment"
  /\ clientEvents' = Append(clientEvents,
       Event("payment_sending", BigInt(payment.amountRequired)))
  /\ transfers' = Append(transfers,
       [to |-> payment.recipientAddress,
        tokenAddress |-> payment.tokenAddress,
        amount |-> BigInt(payment.amountRequired),
        memo |-> payment.memo,
        tx |-> Len(transfers) + 1,
        state |-> "sent",
        txHash |-> <<>>])
  /\ UNCHANGED << result, sleeps >>

\* getBalance resolves
BalanceReturns(balance) ==
  /\ cpc = "awaitBalance"
  /\ balanceRead' = "fulfilled"
  /\ UNCHANGED << maxRetries, init, attempt, pastDeadline, payment, requests,
                  offClient >>
  /\ IF balance < BigInt(payment.amountRequired)
     THEN /\ Catch(InsufficientBalanceError,
                   <<Event("error", InsufficientBalanceError)>>)
          /\ UNCHANGED transfers
     ELSE SendPayment

\* getBalance rejects and the error reaches the catch block of the loop
BalanceFails_rethrows ==
  /\ cpc = "awaitBalance"
  /\ balanceRead' = "rejected"
  /\ UNCHANGED << maxRetries, init, attempt, pastDeadline, payment, requests,
                  transfers, offClient >>
  /\ Catch(TransportError, <<>>)

\* getBalance rejects: the inner catch swallows the error
BalanceFails ==
  /\ cpc = "awaitBalance"
  /\ balanceRead' = "rejected"
  /\ UNCHANGED << maxRetries, init, attempt, pastDeadline, payment, requests,
                  offClient >>
  /\ SendPayment

\* the hash the signer returns for the n-th transfer of the client
ClientTxHash(n) == <<"0", "x", "d", DigitChar(n)>>

\* sendPayment resolves with the hash of the confirmed transfer; fetch emits
\* payment_confirmed and resubmits the request with the X-Payment header
PaymentConfirmed ==
  /\ cpc = "awaitPayment"
  /\ LET hash == ClientTxHash(transfers[Len(transfers)].tx)
     IN  /\ transfers' = [transfers EXCEPT ![Len(transfers)] =
                            [@ EXCEPT !.state = "confirmed", !.txHash = hash]]
         /\ clientEvents' = Append(clientEvents, Event("payment_confirmed", hash))
         /\ requests' = Append(requests,
              [init EXCEPT !.headers =
                 SetHeader(init.headers, "X-Payment", PaymentHeader(hash, ChainId))])
  /\ cpc' = "awaitRetry"
  /\ UNCHANGED << maxRetries, init, attempt, pastDeadline, balanceRead, payment, sleeps, result,
                  offClient >>

\* sendPayment rejects
PaymentFails ==
  /\ cpc = "awaitPayment"
  /\ transfers' = [transfers EXCEPT ![Len(transfers)] = [@ EXCEPT !.state = "failed"]]
  /\ Catch(SignerError, <<>>)
  /\ UNCHANGED << maxRetries, init, attempt, pastDeadline, balanceRead, payment, requests,
                  offClient >>

\* the resubmission is answered: return retryResponse
RetryResponse(resp) ==
  /\ cpc = "awaitRetry"
  /\ cpc' = "returned"
  /\ result' = Returned(Len(requests), resp)
  /\ UNCHANGED << maxRetries, init, attempt, pastDeadline, balanceRead, payment, requests,
                  transfers, sleeps, clientEvents, offClient >>

\* the resubmission fails in the transport
RetryFails ==
  /\ cpc = "awaitRetry"
  /\ Catch(TransportError, <<>>)
  /\ UNCHANGED << maxRetries, init, attempt, pastDeadline, balanceRead, payment, requests,
                  transfers, offClient >>

\* ---------------------------------------------- fetch against any server
\* config.maxRetries ?? 3
DefaultMaxRetries == 3

\* AgentGateConfig.maxRetries: none, the default, and enough for the cap
RetryConfigs == {0, DefaultMaxRetries, 5}

ContentType == [n \in {"Content-Type"} |-> "application/json"]

\* the requests fetch is called with
CallArgs ==
  { [method |-> "POST", path |-> "/api/chat", headers |-> hs] :
      hs \in {<<>>, ContentType} }

Response(st, js, b) == [status |-> st, json |-> js, body |-> b]

SampleChallenge ==
  BuildPaymentRequirement(Pricing["POST /api/chat"].amount, "POST /api/chat",
                          RandomUUID(1), 301)

\* what a server may answer to the first request: something else than 402,
\* a complete challenge, challenges without one of the three fields or
\* without any, with a non-numeric amount, and a 402 that is not JSON
InitialResponses ==
  { Response(200, TRUE, NoBody),
    Response(402, TRUE, Json("Payment Required", "", SampleChallenge)),
    Response(402, TRUE, Json("Payment Required", "",
                             [SampleChallenge EXCEPT !.recipientAddress = <<>>])),
    Response(402, TRUE, Json("Payment Required", "",
                             [SampleChallenge EXCEPT !.amountRequired = <<>>])),
    Response(402, TRUE, Json("Payment Required", "",
                             [SampleChallenge EXCEPT !.tokenAddress = <<>>])),
    Response(402, TRUE, Json("Payment verification failed", "", NoPayment)),
    Response(402, TRUE, Json("Payment Required", "",
                             [SampleChallenge EXCEPT !.amountRequired = <<"1", "e", "3">>])),
    Response(402, FALSE, NoBody) }

\* what a server may answer to the resubmission
RetryResponses ==
  { Response(200, TRUE, NoBody),
    Response(402, TRUE, Json("Payment verification failed", "", NoPayment)),
    Response(409, TRUE, Json("Transaction already used for a previous request",
                             "", NoPayment)),
    Response(500, FALSE, NoBody) }

\* balanceOf: below the required 5000, exactly it, above it
Balances == {4999, 5000, 20000}

InitFetch ==
  /\ InitServer
  /\ InitGatewayIdle
  /\ onPayment = FALSE
  /\ InitFn
  /\ InitManyIdle
  /\ maxRetries \in RetryConfigs
  /\ init \in CallArgs
  /\ cpc = "called"
  /\ attempt = 0
  /\ pastDeadline = FALSE
  /\ balanceRead = "none"
  /\ payment = NoPayment
  /\ requests = <<>>
  /\ transfers = <<>>
  /\ sleeps = <<>>
  /\ clientEvents = <<>>
  /\ result = NoResult

NextFetch ==
  \/ Call
  \/ \E resp \in InitialResponses : InitialResponse(resp)
  \/ InitialFails
  \/ \E balance \in Balances : BalanceReturns(balance)
  \/ BalanceFails
  \/ PaymentConfirmed
  \/ PaymentFails
  \/ \E resp \in RetryResponses : RetryResponse(resp)
  \/ RetryFails
  \/ Wake
  \/ DeadlinePasses

\* every awaited operation settles and every sleep ends
SpecFetch == InitFetch /\ [][NextFetch]_vars /\ WF_vars(NextFetch)

\* ------------------------------------------------------- claims about fetch
Done == cpc \in {"returned", "failed"}

\* the first requests of the attempts: those sent as fetch was called
FirstRequests == {i \in DOMAIN requests : requests[i] = init}

\* request i is the call's request with the header X-Payment: <hash>:42431
\* added and nothing else changed
Resubmits(i, hash) ==
  /\ requests[i].method = init.method
  /\ requests[i].path = init.path
  /\ DOMAIN requests[i].headers = DOMAIN init.headers \cup {"X-Payment"}
  /\ \A n \in DOMAIN init.headers \ {"X-Payment"} :
       requests[i].headers[n] = init.headers[n]
  /\ requests[i].headers["X-Payment"] = hash \o <<":", "4", "2", "4", "3", "1">>

\* C17: after the transfer for a 402 challenge is confirmed, fetch resubmits
\* the same request with the added header X-Payment: <txHash>:<chainId>, and
\* the response to that resubmission is what fetch returns, whatever its
\* status (a 402 or a 409 included).
C17_ResubmitsAndReturns ==
  /\ \A t \in DOMAIN transfers :
       transfers[t].state = "confirmed" =>
         \E i \in DOMAIN requests : Resubmits(i, transfers[t].txHash)
  /\ cpc = "awaitRetry" =>
       /\ transfers # <<>>
       /\ transfers[Len(transfers)].state = "confirmed"
       /\ Resubmits(Len(requests), transfers[Len(transfers)].txHash)
  /\ (cpc = "returned" /\ Len(requests) \notin FirstRequests) =>
       /\ result.kind = "response"
       /\ result.request = Len(requests)
       /\ Resubmits(Len(requests), transfers[Len(transfers)].txHash)

C17_Witness ==
  /\ cpc = "returned"
  /\ init.headers = ContentType
  /\ transfers # <<>>
  /\ Resubmits(Len(requests), ClientTxHash(1))
  /\ result.request = Len(requests)
  /\ result.status = 409

\* the fields of a 402 body the client needs
LacksField(resp) ==
  \/ resp.body.payment.recipientAddress = <<>>
  \/ resp.body.payment.amountRequired = <<>>
  \/ resp.body.payment.tokenAddress = <<>>

\* the step in which a 402 arrives whose body lacks a required field
InvalidChallengeArrives ==
  \E resp \in InitialResponses :
    resp.status = 402 /\ resp.json /\ LacksField(resp) /\ InitialResponse(resp)

\* the step in which the balance read succeeds and is below the amount
InsufficientBalanceRead ==
  \E balance \in Balances :
    balance < DigitsValue(payment.amountRequired) /\ BalanceReturns(balance)

\* the steps in which any other error reaches the catch block of fetch
OtherErrorCaught ==
  \/ InitialFails
  \/ PaymentFails
  \/ RetryFails
  \/ \E resp \in InitialResponses :
       /\ resp.status = 402
       /\ ~resp.json \/ ~LacksField(resp)
       /\ InitialResponse(resp)
       /\ cpc' # "awaitBalance"

NewEvents == SubSeq(clientEvents', Len(clientEvents) + 1, Len(clientEvents'))

BackoffTable == <<1000, 2000, 4000, 8000, 10000, 10000>>

\* C18: on a 402 body without recipientAddress, amountRequired or
\* tokenAddress, and on a balance read below the required amount, fetch fails
\* at once: no transfer is submitted, no retrying event is emitted, no
\* further request is sent.  Every other error is retried under the backoff
\* schedule while attempts remain: a retrying event, the sleep, then the
\* next attempt unless the deadline has passed.
C18_NonRetryableFailAtOnce ==
  [][ /\ (InvalidChallengeArrives \/ InsufficientBalanceRead) =>
           /\ cpc' = "failed"
           /\ result'.kind = "error"
           /\ transfers' = transfers
           /\ requests' = requests
           /\ sleeps' = sleeps
           /\ \A i \in DOMAIN NewEvents : NewEvents[i].type # "retrying"
      /\ (OtherErrorCaught /\ attempt < maxRetries) =>
           /\ cpc' = "sleeping"
           /\ NewEvents # <<>>
           /\ NewEvents[Len(NewEvents)].type = "retrying"
           /\ NewEvents[Len(NewEvents)].arg = attempt + 1
           /\ sleeps' = Append(sleeps, BackoffTable[attempt + 1])
      /\ (OtherErrorCaught /\ attempt >= maxRetries) =>
           /\ cpc' = "failed"
           /\ sleeps' = sleeps
      /\ (cpc = "sleeping" /\ cpc' # "sleeping") =>
           \/ pastDeadline /\ cpc' = "failed" /\ requests' = requests
           \/ /\ ~pastDeadline
              /\ attempt' = attempt + 1
              /\ requests' = Append(requests, init)
              /\ cpc' = "awaitInitial"
      /\ Done => UNCHANGED clientVars
    ]_vars

C18_Witness ==
  /\ cpc = "failed"
  /\ Includes(result.error, "Insufficient balance")
  /\ attempt = 1
  /\ sleeps = <<1000>>
  /\ Len(requests) = 3
  /\ Len(transfers) = 1

\* C19: fetch makes at most maxRetries + 1 attempts (4 by default), the sleep
\* after the retryable failure of attempt n (counted from 0) lasts
\* min(1000 * 2^n, 10000) ms, and the call always ends, by returning a
\* response or by failing with an error.
C19_BoundedAttemptsAndTermination ==
  /\ [](/\ attempt <= maxRetries
        /\ Cardinality(FirstRequests) <= maxRetries + 1
        /\ maxRetries = DefaultMaxRetries => Cardinality(FirstRequests) <= 4
        /\ Len(sleeps) <= maxRetries
        /\ \A i \in DOMAIN sleeps : sleeps[i] = BackoffTable[i]
        /\ Done => result.kind \in {"response", "error"})
  /\ <>Done

C19_Witness ==
  /\ cpc = "failed"
  /\ maxRetries = 5
  /\ Cardinality(FirstRequests) = 6
  /\ sleeps = <<1000, 2000, 4000, 8000, 10000>>

\* ------------------------------------------ fetch against the paywall
\* One call of fetch whose requests are served by the paywall middleware:
\* the n-th request of the client is the n-th request of the server.  The
\* transport, the ledger and the signer do not fail and the balance covers
\* every price.
PaidCallArgs ==
  { [method |-> "POST", path |-> p, headers |-> hs] :
      p \in Paths, hs \in {<<>>, ContentType} }

SufficientBalances == {10000, 20000}

InitPaidFetch ==
  /\ InitServer
  /\ InitGatewayIdle
  /\ InitFn
  /\ InitManyIdle
  /\ maxRetries \in RetryConfigs
  /\ init \in PaidCallArgs
  /\ cpc = "called"
  /\ attempt = 0
  /\ pastDeadline = FALSE
  /\ balanceRead = "none"
  /\ payment = NoPayment
  /\ requests = <<>>
  /\ transfers = <<>>
  /\ sleeps = <<>>
  /\ clientEvents = <<>>
  /\ result = NoResult

\* a request the client has sent reaches the middleware
Deliver ==
  \E r \in Slots :
    /\ r <= Len(requests)
    /\ Arrive(r, requests[r].method, requests[r].path,
              GetHeader(requests[r].headers, "X-Payment"))

ServerResponse(r) == Response(status[r], TRUE, body[r])

\* the middleware's response to the first request reaches the client
InitialAnswered ==
  /\ cpc = "awaitInitial"
  /\ Len(requests) \in Slots
  /\ pc[Len(requests)] = "done"
  /\ InitialResponse(ServerResponse(Len(requests)))

\* the middleware's response to the resubmission reaches the client
RetryAnswered ==
  /\ cpc = "awaitRetry"
  /\ Len(requests) \in Slots
  /\ pc[Len(requests)] = "done"
  /\ RetryResponse(ServerResponse(Len(requests)))

NextPaidFetch ==
  \/ Call
  \/ Deliver
  \/ InitialAnswered
  \/ \E balance \in SufficientBalances : BalanceReturns(balance)
  \/ PaymentConfirmed
  \/ RetryAnswered
  \/ \E r \in Slots : RpcReturns(r)
  \/ \E r \in Slots : Continue(r)
  \/ \E r \in Slots : HookResolves(r)
  \/ \E r \in Slots : HookRejects(r)

SpecPaidFetch == InitPaidFetch /\ [][NextPaidFetch]_vars

\* the number of requests whose handler ran (a request runs it at most once)
HandlerRuns ==
  Cardinality({r \in Slots : "handler" \in Range(events[r])})

\* C15: with sufficient balance and no failure of transport or ledger, fetch
\* on a priced endpoint behind the paywall ends by returning the handler's
\* response: exactly one 402 challenge was issued, exactly one transfer was
\* submitted and confirmed, the resubmission carrying X-Payment was admitted,
\* the handler ran exactly once and the txHash is in the used set.
C15_PaidFetchReturnsHandlerResponse ==
  Done =>
    /\ cpc = "returned"
    /\ result.kind = "response"
    /\ result.status = 200
    /\ Cardinality({r \in Slots : outcome[r] = "CHALLENGE_ISSUED"}) = 1
    /\ Len(transfers) = 1
    /\ transfers[1].state = "confirmed"
    /\ Len(requests) = 2
    /\ GetHeader(requests[2].headers, "X-Payment") # NoHeader
    /\ outcome[2] = "ADMITTED"
    /\ HandlerRuns = 1
    /\ transfers[1].txHash \in usedTxHashes

\* ================================= AgentGateClient.fetchMany and fetchBatch
\* The call forks one promise per request (phase 1), one per payable 402
\* (settlement) and one per settled payment (resubmission).  An action
\* settles one awaited operation and, when that settles the Promise.all the
\* call is waiting on, runs the call up to its next await.  The address of a
\* remote-custody wallet is taken as resolved.

MaxBatch == 2

\* an element of initialResponses, paymentResults, retryResults and results
Pending == [state |-> "pending", request |-> 0, txHash |-> <<>>,
            response |-> Response(0, FALSE, NoBody)]

\* the null of a request that failed in the transport, or marked for retry
Null == [Pending EXCEPT !.state = "null"]

Rejected == [Pending EXCEPT !.state = "rejected"]

\* the response to the client's n-th HTTP request
Answer(n, resp) == [Pending EXCEPT !.state = "response", !.request = n,
                                   !.response = resp]

\* { index, txHash, request }
Paid(hash) == [Pending EXCEPT !.state = "fulfilled", !.txHash = hash]

\* res && res.status === 402, res.json() parses, and the three fields of
\* body.payment are truthy
Payable(res) ==
  /\ res.state = "response"
  /\ res.response.status = 402
  /\ res.response.json
  /\ HasPaymentFields(res.response.body.payment)

\* task.payment.amountHuman ?? task.payment.amountRequired
AmountShown(pay) ==
  IF pay.amountHuman # <<>> THEN pay.amountHuman ELSE pay.amountRequired

\* the arguments of sendPayment for a task, as the tx-th transaction
MemoTransfer(pay, tx) ==
  [to |-> pay.recipientAddress, tokenAddress |-> pay.tokenAddress,
   amount |-> BigInt(pay.amountRequired), memo |-> pay.memo, tx |-> tx,
   state |-> "sent", txHash |-> <<>>]

\* a call of batchCalls: a plain transfer, without the memo
BatchCall(pay, tx) == [MemoTransfer(pay, tx) EXCEPT !.memo = <<>>]

RECURSIVE Concat(_)
Concat(ss) == IF ss = <<>> THEN <<>> ELSE Head(ss) \o Concat(Tail(ss))

\* request.init with retryHeaders
RetryRequest(request, hash) ==
  [request EXCEPT !.headers =
     SetHeader(request.headers, "X-Payment", PaymentHeader(hash, ChainId))]

\* the call rejects with err unless it has rejected already
Reject(err) ==
  IF mpc = "rejected"
  THEN UNCHANGED << mpc, result >>
  ELSE mpc' = "rejected" /\ result' = Thrown(err)

\* fetchMany or fetchBatch is called: phase 1 fires every request
CallMany ==
  /\ mpc = "called"
  /\ mpc' = "discover"
  /\ requests' = requests \o batch
  /\ initialResponses' = [i \in DOMAIN batch |-> Pending]
  /\ results' = [i \in DOMAIN batch |-> Pending]
  /\ UNCHANGED << mode, privy, batch, paymentTasks, paymentResults, retryResults,
                  transfers, clientEvents, result, offMany >>

\* phase 2 and the start of the settlements, once every initial request
\* has settled to the responses `ir`.  A task is { index, payment, request };
\* `transfer` is the place of its transfer among the client's, 0 if none.
Partition(ir) ==
  LET Index == [i \in DOMAIN ir |-> i]
      IsPayable(i) == Payable(ir[i])
      payable == SelectSeq(Index, IsPayable)
      tasks == [k \in DOMAIN payable |->
                  [index |-> payable[k],
                   payment |-> ir[payable[k]].response.body.payment,
                   request |-> batch[payable[k]],
                   transfer |-> 0]]
      \* BigInt(task.payment.amountRequired) does not throw
      numeric(k) == AllDigits(tasks[k].payment.amountRequired)
      place(k) == Cardinality({j \in 1..k : numeric(j)})
      good == SelectSeq([k \in DOMAIN tasks |-> k], numeric)
      first == Len(transfers)
      required(k) == Event("payment_required", AmountShown(tasks[k].payment))
      \* the synchronous part of a settlement task of fetchMany
      started(k) == IF numeric(k)
                    THEN <<required(k)>>
                    ELSE <<required(k), Event("error", SyntaxError)>>
      individually ==
        /\ transfers' = transfers \o
             [n \in DOMAIN good |-> MemoTransfer(tasks[good[n]].payment, first + n)]
        /\ paymentTasks' =
             [k \in DOMAIN tasks |->
                [tasks[k] EXCEPT !.transfer = IF numeric(k) THEN first + place(k)
                                                            ELSE 0]]
        /\ paymentResults' =
             [k \in DOMAIN tasks |-> IF numeric(k) THEN Pending ELSE Rejected]
        /\ IF Len(good) = Len(tasks)
           THEN mpc' = "settle" /\ UNCHANGED result
           ELSE mpc' = "rejected" /\ result' = Thrown(SyntaxError)
  IN  /\ UNCHANGED << retryResults, requests >>
      /\ IF tasks = <<>>
         THEN \* results.map((r, i) => r ?? initialResponses[i]!)
              /\ results' = ir
              /\ mpc' = "returned"
              /\ paymentTasks' = tasks
              /\ UNCHANGED << paymentResults, transfers, clientEvents, result >>
         ELSE /\ results' = [i \in DOMAIN ir |-> IF IsPayable(i) THEN Null ELSE ir[i]]
              /\ IF mode = "fetchMany"
                 THEN /\ clientEvents' = clientEvents \o
                           Concat([k \in DOMAIN tasks |-> started(k)])
                      /\ individually
                 ELSE /\ clientEvents' = clientEvents \o
                           [k \in DOMAIN tasks |-> required(k)]
                      /\ IF Len(good) # Len(tasks)
                         THEN \* building batchCalls throws
                              /\ mpc' = "rejected"
                              /\ result' = Thrown(SyntaxError)
                              /\ paymentTasks' = tasks
                              /\ UNCHANGED << paymentResults, transfers >>
                         ELSE IF privy
                         THEN individually
                         ELSE \* one transaction with the calls of every task
                              /\ mpc' = "settleBatch"
                              /\ transfers' = transfers \o
                                   [k \in DOMAIN tasks |->
                                      BatchCall(tasks[k].payment, first + 1)]
                              /\ paymentTasks' =
                                   [k \in DOMAIN tasks |->
                                      [tasks[k] EXCEPT !.transfer = first + k]]
                              /\ UNCHANGED << paymentResults, result >>

Settled(rs) == \A i \in DOMAIN rs : rs[i].state # "pending"

\* an initial request settles: answered with resp, or null after a
\* transport error
InitialSettles(i, res) ==
  /\ mpc = "discover"
  /\ i \in DOMAIN initialResponses
  /\ initialResponses[i].state = "pending"
  /\ LET ir == [initialResponses EXCEPT ![i] = res]
     IN  /\ initialResponses' = ir
         /\ IF Settled(ir)
            THEN Partition(ir)
            ELSE UNCHANGED << mpc, paymentTasks, paymentResults, retryResults,
                              results, requests, transfers, clientEvents, result >>
  /\ UNCHANGED << mode, privy, batch, offMany >>

\* phase 4: every paid request is resubmitted with its payment header
Resubmit(hashes) ==
  /\ mpc' = "retry"
  /\ requests' = requests \o
       [k \in DOMAIN paymentTasks |-> RetryRequest(paymentTasks[k].request, hashes[k])]
  /\ retryResults' = [k \in DOMAIN paymentTasks |-> Pending]

\* sendPayment of task k resolves with the hash of its confirmed transfer
TaskConfirmed(k) ==
  /\ mpc \in {"settle", "rejected"}
  /\ k \in DOMAIN paymentResults
  /\ paymentResults[k].state = "pending"
  /\ LET t == paymentTasks[k].transfer
         hash == ClientTxHash(transfers[t].tx)
         pr == [paymentResults EXCEPT ![k] = Paid(hash)]
     IN  /\ transfers' = [transfers EXCEPT ![t] =
                            [@ EXCEPT !.state = "confirmed", !.txHash = hash]]
         /\ clientEvents' = Append(clientEvents, Event("payment_confirmed", hash))
         /\ paymentResults' = pr
         /\ IF mpc = "settle" /\ \A j \in DOMAIN pr : pr[j].state = "fulfilled"
            THEN Resubmit([j \in DOMAIN pr |-> pr[j].txHash])
            ELSE UNCHANGED << mpc, requests, retryResults >>
  /\ UNCHANGED << mode, privy, batch, initialResponses, paymentTasks, results,
                  result, offMany >>

\* sendPayment of task k rejects: fetchMany emits an error event and
\* rethrows, the fallback of fetchBatch has no catch
TaskFails(k) ==
  /\ mpc \in {"settle", "rejected"}
  /\ k \in DOMAIN paymentResults
  /\ paymentResults[k].state = "pending"
  /\ transfers' = [transfers EXCEPT ![paymentTasks[k].transfer] =
                     [@ EXCEPT !.state = "failed"]]
  /\ clientEvents' = IF mode = "fetchMany"
                     THEN Append(clientEvents, Event("error", SignerError))
                     ELSE clientEvents
  /\ paymentResults' = [paymentResults EXCEPT ![k] = Rejected]
  /\ Reject(SignerError)
  /\ UNCHANGED << mode, privy, batch, initialResponses, paymentTasks,
                  retryResults, results, requests, offMany >>

\* the batch transaction is confirmed: one hash for every task
BatchConfirmed ==
  /\ mpc = "settleBatch"
  /\ LET batchTxHash == ClientTxHash(transfers[paymentTasks[1].transfer].tx)
         calls == {paymentTasks[k].transfer : k \in DOMAIN paymentTasks}
     IN  /\ transfers' = [t \in DOMAIN transfers |->
                            IF t \in calls
                            THEN [transfers[t] EXCEPT !.state = "confirmed",
                                                      !.txHash = batchTxHash]
                            ELSE transfers[t]]
         /\ clientEvents' = Append(clientEvents,
                                   Event("payment_confirmed", batchTxHash))
         /\ Resubmit([k \in DOMAIN paymentTasks |-> batchTxHash])
  /\ UNCHANGED << mode, privy, batch, initialResponses, paymentTasks,
                  paymentResults, results, result, offMany >>

\* sendTransaction or waitForTransactionReceipt of the batch rejects
BatchFails ==
  /\ mpc = "settleBatch"
  /\ LET calls == {paymentTasks[k].transfer : k \in DOMAIN paymentTasks}
     IN  transfers' = [t \in DOMAIN transfers |->
                         IF t \in calls
                         THEN [transfers[t] EXCEPT !.state = "failed"]
                         ELSE transfers[t]]
  /\ Reject(SignerError)
  /\ UNCHANGED << mode, privy, batch, initialResponses, paymentTasks,
                  paymentResults, retryResults, results, requests, clientEvents,
                  offMany >>

\* the request resubmitted for task k
RetryOf(k) == Len(batch) + k

\* the resubmission of task k is answered; the last answer merges the
\* results and the call returns
RetrySettles(k, resp) ==
  /\ mpc \in {"retry", "rejected"}
  /\ k \in DOMAIN retryResults
  /\ retryResults[k].state = "pending"
  /\ LET rr == [retryResults EXCEPT ![k] = Answer(RetryOf(k), resp)]
     IN  /\ retryResults' = rr
         /\ IF mpc = "retry" /\ \A j \in DOMAIN rr : rr[j].state = "response"
            THEN /\ mpc' = "returned"
                 /\ results' =
                      [i \in DOMAIN results |->
                         IF \E j \in DOMAIN paymentTasks : paymentTasks[j].index = i
                         THEN rr[CHOOSE j \in DOMAIN paymentTasks :
                                   paymentTasks[j].index = i]
                         ELSE results[i]]
            ELSE UNCHANGED << mpc, results >>
  /\ UNCHANGED << mode, privy, batch, initialResponses, paymentTasks,
                  paymentResults, requests, transfers, clientEvents, result,
                  offMany >>

\* the resubmission of task k fails in the transport
RetryRejects(k) ==
  /\ mpc \in {"retry", "rejected"}
  /\ k \in DOMAIN retryResults
  /\ retryResults[k].state = "pending"
  /\ retryResults' = [retryResults EXCEPT ![k] = Rejected]
  /\ Reject(TransportError)
  /\ UNCHANGED << mode, privy, batch, initialResponses, paymentTasks,
                  paymentResults, results, requests, transfers, clientEvents,
                  offMany >>

\* ------------------------------------- fetchMany and fetchBatch, any server
\* the requests of a batch
BatchArgs == { [method |-> "POST", path |-> p, headers |-> ContentType] : p \in Paths }

\* what a server may answer to an initial request: something else than 402,
\* a complete challenge, a 402 without requirement, a challenge with a
\* non-numeric amount
ManyInitialResponses ==
  { Response(200, TRUE, NoBody),
    Response(402, TRUE, Json("Payment Required", "", SampleChallenge)),
    Response(402, TRUE, Json("Payment verification failed", "", NoPayment)),
    Response(402, TRUE, Json("Payment Required", "",
                             [SampleChallenge EXCEPT !.amountRequired = <<"1", "e", "3">>])) }

\* what a server may answer to a resubmission
ManyRetryResponses ==
  { Response(200, TRUE, NoBody),
    Response(409, TRUE, Json("Transaction already used for a previous request",
                             "", NoPayment)) }

InitMany ==
  /\ InitServer
  /\ InitGatewayIdle
  /\ onPayment = FALSE
  /\ InitFn
  /\ maxRetries = DefaultMaxRetries
  /\ init = NoRequest
  /\ cpc = "idle"
  /\ attempt = 0
  /\ pastDeadline = FALSE
  /\ balanceRead = "none"
  /\ payment = NoPayment
  /\ requests = <<>>
  /\ transfers = <<>>
  /\ sleeps = <<>>
  /\ clientEvents = <<>>
  /\ result = NoResult
  /\ mode \in {"fetchMany", "fetchBatch"}
  /\ privy \in BOOLEAN
  /\ \E n \in 0..MaxBatch : batch \in [1..n -> BatchArgs]
  /\ mpc = "called"
  /\ initialResponses = <<>>
  /\ paymentTasks = <<>>
  /\ paymentResults = <<>>
  /\ retryResults = <<>>
  /\ results = <<>>

NextMany ==
  \/ CallMany
  \/ \E i \in 1..MaxBatch, resp \in ManyInitialResponses :
       InitialSettles(i, Answer(i, resp))
  \/ \E i \in 1..MaxBatch : InitialSettles(i, Null)
  \/ \E k \in 1..MaxBatch : TaskConfirmed(k)
  \/ \E k \in 1..MaxBatch : TaskFails(k)
  \/ BatchConfirmed
  \/ BatchFails
  \/ \E k \in 1..MaxBatch, resp \in ManyRetryResponses : RetrySettles(k, resp)
  \/ \E k \in 1..MaxBatch : RetryRejects(k)

SpecMany == InitMany /\ [][NextMany]_vars

\* ------------------------------- claims about fetchMany and fetchBatch
IsPaymentRequired(e) == e.type = "payment_required"

\* the call has returned its vector or thrown
ManyDone == mpc \in {"returned", "rejected"}

\* the requests whose first response is not a 402
NotChallenged ==
  {i \in DOMAIN initialResponses :
     /\ initialResponses[i].state = "response"
     /\ initialResponses[i].response.status # 402}

\* C20: a request whose first response is not a 402 gets that response as
\* its element of the vector fetchMany or fetchBatch returns, no settlement
\* task (hence no transfer) is created for it and no payment_required event
\* is emitted for it; the call does not end otherwise than by returning.
C20_NonChallengeReturnedAsIs ==
  \A i \in NotChallenged :
    /\ \A k \in DOMAIN paymentTasks : paymentTasks[k].index # i
    /\ Len(transfers) <= Len(paymentTasks)
    /\ Len(SelectSeq(clientEvents, IsPaymentRequired)) = Len(paymentTasks)
    /\ ManyDone => /\ mpc = "returned"
                   /\ results[i] = initialResponses[i]

\* the task that settles request i
TaskOf(i) == CHOOSE k \in DOMAIN paymentTasks : paymentTasks[k].index = i

HasTask(i) == \E k \in DOMAIN paymentTasks : paymentTasks[k].index = i

\* request n is batch[i] with an X-Payment header added
ResubmissionOf(n, i) ==
  /\ n \in DOMAIN requests
  /\ requests[n].method = batch[i].method
  /\ requests[n].path = batch[i].path
  /\ "X-Payment" \in DOMAIN requests[n].headers
  /\ \A h \in DOMAIN batch[i].headers : requests[n].headers[h] = batch[i].headers[h]

\* C21: the vector fetchMany or fetchBatch returns has the length of the
\* input, and its element i is a response: the initial response of request
\* i when that was not a payable 402, else the response to the resubmission
\* of request i with the payment header.
C21_VectorOfResponsesInInputOrder ==
  mpc = "returned" =>
    /\ Len(results) = Len(batch)
    /\ \A i \in DOMAIN batch :
         /\ results[i].state = "response"
         /\ IF Payable(initialResponses[i])
            THEN /\ HasTask(i)
                 /\ results[i] = retryResults[TaskOf(i)]
                 /\ results[i].request = RetryOf(TaskOf(i))
                 /\ ResubmissionOf(results[i].request, i)
            ELSE results[i] = initialResponses[i]

\* nothing the call started is still pending
Quiescent ==
  /\ ManyDone
  /\ Settled(paymentResults)
  /\ Settled(retryResults)

\* task k's request was resubmitted with the hash of its own transfer
ResubmittedOwn(k) ==
  \E n \in DOMAIN requests :
    /\ n > Len(batch)
    /\ requests[n] = [paymentTasks[k].request EXCEPT !.headers =
         SetHeader(paymentTasks[k].request.headers, "X-Payment",
                   transfers[paymentTasks[k].transfer].txHash
                     \o <<":", "4", "2", "4", "3", "1">>)]

\* C22: in fetchMany, once everything has settled, every settlement task
\* whose transfer was confirmed has had its own request resubmitted with
\* X-Payment: <its own txHash>:<chainId>, whether or not other tasks failed.
C22_ConfirmedTaskResubmitted ==
  (mode = "fetchMany" /\ Quiescent) =>
    \A k \in DOMAIN paymentResults :
      paymentResults[k].state = "fulfilled" => ResubmittedOwn(k)

\* the transactions the signer was asked to send
Transactions == {transfers[t].tx : t \in DOMAIN transfers}

\* transfer t pays what task k's challenge requires
PaysFor(t, k) ==
  /\ transfers[t].to = paymentTasks[k].payment.recipientAddress
  /\ transfers[t].tokenAddress = paymentTasks[k].payment.tokenAddress
  /\ transfers[t].amount = BigInt(paymentTasks[k].payment.amountRequired)

\* one transfer per task, each paying for its task
OneTransferPerTask ==
  /\ Len(transfers) = Len(paymentTasks)
  /\ \A k \in DOMAIN paymentTasks :
       /\ paymentTasks[k].transfer \in DOMAIN transfers
       /\ PaysFor(paymentTasks[k].transfer, k)
  /\ \A j, k \in DOMAIN paymentTasks :
       j # k => paymentTasks[j].transfer # paymentTasks[k].transfer

\* C23: fetchBatch with a local key sends one transaction holding one
\* transfer per payable 402 and, once it is confirmed, resubmits every such
\* request with the header <batchTxHash>:<chainId>; with a remote-custody
\* signer it sends one transaction per payable 402 and every request whose
\* transfer was confirmed is resubmitted with its own txHash.
C23_BatchOrIndividualSettlement ==
  (mode = "fetchBatch" /\ transfers # <<>>) =>
    /\ OneTransferPerTask
    /\ IF privy
       THEN /\ Cardinality(Transactions) = Len(paymentTasks)
            /\ Quiescent =>
                 \A k \in DOMAIN paymentResults :
                   paymentResults[k].state = "fulfilled" => ResubmittedOwn(k)
       ELSE /\ Cardinality(Transactions) = 1
            /\ (\E t \in DOMAIN transfers : transfers[t].state = "confirmed") =>
                 /\ \A t \in DOMAIN transfers :
                      /\ transfers[t].state = "confirmed"
                      /\ transfers[t].txHash = transfers[1].txHash
                 /\ \A k \in DOMAIN paymentTasks : ResubmittedOwn(k)

\* ------------------------------------------------------ createPaymentMemo
\* createPaymentMemo called on its own with two sets of arguments
MaxEndpointLen == 2

MemoAlphabet == {"a", "b"}

\* endpoints and nonces: the strings up to a length, the empty one included
MemoEndpoints == UNION {[1..n -> MemoAlphabet] : n \in 0..MaxEndpointLen}

MemoNonces == {<<>>, <<"a">>, <<"b">>, <<"a", "b">>}

\* bodyHash values: two spellings of the same bytes among them
MemoBodyHashes == {<<"0", "x", "0", "1">>, <<"0", "x", "a", "b">>,
                   <<"0", "x", "A", "B">>}

MemoExpiries == {0, 1, 301}

MemoArgs(e, b, n, x) == [endpoint |-> e, bodyHash |-> b, nonce |-> n, expiry |-> x]

InitMemo ==
  /\ InitServer
  /\ InitGatewayIdle
  /\ onPayment = FALSE
  /\ InitClientIdle
  /\ \E e1 \in MemoEndpoints, e2 \in MemoEndpoints :
     \E b1 \in MemoBodyHashes, b2 \in MemoBodyHashes :
     \E n1 \in MemoNonces, n2 \in MemoNonces :
     \E x1 \in MemoExpiries, x2 \in MemoExpiries :
       fnInput = <<MemoArgs(e1, b1, n1, x1), MemoArgs(e2, b2, n2, x2)>>
  /\ fnOutput = <<>>
  /\ fnDone = FALSE

CallMemo ==
  /\ ~fnDone
  /\ fnOutput' = [i \in DOMAIN fnInput |->
                    CreatePaymentMemo(fnInput[i].endpoint, fnInput[i].bodyHash,
                                      fnInput[i].nonce, fnInput[i].expiry)]
  /\ fnDone' = TRUE
  /\ UNCHANGED << fnInput, offFn >>

NextMemo == CallMemo

SpecMemo == InitMemo /\ [][NextMemo]_vars

\* the fields in which two sets of arguments differ; a bodyHash is the 32
\* bytes it denotes
FieldsChanged(a, b) ==
  {f \in {"endpoint", "nonce", "expiry"} : a[f] # b[f]}
    \cup (IF HexToBytes(a.bodyHash) # HexToBytes(b.bodyHash) THEN {"bodyHash"} ELSE {})

\* C24: createPaymentMemo is a function of (endpoint, bodyHash, nonce,
\* expiry): equal arguments give equal memos, and arguments that differ in
\* exactly one of the four fields give different memos.
C24_MemoDeterministicAndFieldSensitive ==
  fnDone =>
    /\ FieldsChanged(fnInput[1], fnInput[2]) = {} => fnOutput[1] = fnOutput[2]
    /\ Cardinality(FieldsChanged(fnInput[1], fnInput[2])) = 1 =>
         fnOutput[1] # fnOutput[2]

\* only the nonce differs, one nonce being a prefix of the other
C24_Witness ==
  /\ fnDone
  /\ FieldsChanged(fnInput[1], fnInput[2]) = {"nonce"}
  /\ fnInput[1].nonce = <<"a">>
  /\ fnInput[2].nonce = <<"a", "b">>
  /\ fnOutput[1] # fnOutput[2]

\* ------------------------------------- parsePaymentHeader, round trips
\* parsePaymentHeader called on a header put together from a txHash and a
\* decimal numeral, and on the header formatted from a (txHash, chainId) pair
MaxChainDigits == 3

SampleTxHashes == {<<"0", "x", "a">>, <<"0", "x", "A", "1">>,
                   <<"0", "x", "0", "a", "1">>}

\* the decimal numerals up to a length, leading zeros allowed
ChainNumerals ==
  UNION {[1..n -> {"0", "1", "7"}] : n \in 1..MaxChainDigits}

SampleChainIds == {0, 1, 7, 10, 42431}

InitRoundTrip ==
  /\ InitServer
  /\ InitGatewayIdle
  /\ onPayment = FALSE
  /\ InitClientIdle
  /\ \E hash \in SampleTxHashes, numeral \in ChainNumerals, id \in SampleChainIds :
       fnInput = [header |-> hash \o <<":">> \o numeral, numeral |-> numeral,
                  txHash |-> hash, chainId |-> id]
  /\ fnOutput = <<>>
  /\ fnDone = FALSE

\* parse the header and format the result; format the pair and parse the
\* result
CallRoundTrip ==
  /\ ~fnDone
  /\ LET parsed == ParsePaymentHeader(fnInput.header)
     IN  fnOutput' =
           [parsed |-> parsed,
            formatted |-> PaymentHeader(parsed.txHash, parsed.chainId),
            reparsed |-> ParsePaymentHeader(
                           PaymentHeader(fnInput.txHash, fnInput.chainId))]
  /\ fnDone' = TRUE
  /\ UNCHANGED << fnInput, offFn >>

NextRoundTrip == CallRoundTrip

SpecRoundTrip == InitRoundTrip /\ [][NextRoundTrip]_vars

\* formatting a (txHash, chainId) pair and parsing the result gives the pair
PairSurvives ==
  /\ ~fnOutput.reparsed.isNull
  /\ fnOutput.reparsed.txHash = fnInput.txHash
  /\ fnOutput.reparsed.chainId = fnInput.chainId

\* a decimal numeral as Number.prototype.toString writes it
Canonical(numeral) == numeral = <<"0">> \/ numeral[1] # "0"

MaxFractionLen == 7

AmountSigns == {<<>>, <<"-">>}

AmountIntegers == {<<"0">>, <<"1">>, <<"1", "2">>, <<"0", "1">>}

AmountFractions == UNION {[1..n -> {"0", "5"}] : n \in 0..MaxFractionLen}

\* sign, integer part and, when there are fractional digits, a dot and them
DisplayAmount(sign, integer, fraction) ==
  sign \o integer \o (IF fraction = <<>> THEN <<>> ELSE <<".">> \o fraction)

RECURSIVE StripLeadingZeros(_)
StripLeadingZeros(s) ==
  IF Len(s) > 1 /\ s[1] = "0" THEN StripLeadingZeros(Tail(s)) ELSE s

\* viem formatUnits(value, decimals) of a non-negative integer: the decimal
\* digits padded to decimals, split decimals from the right, the fraction
\* stripped of trailing zeros
FormatUnits(value, decimals) ==
  LET display  == PadLeft(ToDecimalString(value), decimals)
      integer  == SubSeq(display, 1, Len(display) - decimals)
      fraction == StripTrailingZeros(
                    SubSeq(display, Len(display) - decimals + 1, Len(display)))
  IN  (IF integer = <<>> THEN <<"0">> ELSE integer)
        \o (IF fraction = <<>> THEN <<>> ELSE <<".">> \o fraction)

InitAmount ==
  /\ InitServer
  /\ InitGatewayIdle
  /\ onPayment = FALSE
  /\ InitClientIdle
  /\ \E sign \in AmountSigns, integer \in AmountIntegers, fraction \in AmountFractions :
       fnInput = [amount |-> DisplayAmount(sign, integer, fraction),
                  negative |-> sign # <<>>, integer |-> integer,
                  fraction |-> fraction]
  /\ fnOutput = <<>>
  /\ fnDone = FALSE

\* buildPaymentRequirement({amount, ...}); the call does not throw for
\* these amounts
CallBuild ==
  /\ ~fnDone
  /\ fnOutput' = [threw |-> FALSE,
                  requirement |-> BuildPaymentRequirement(fnInput.amount,
                                    "POST /api/chat", RandomUUID(1), 301)]
  /\ fnDone' = TRUE
  /\ UNCHANGED << fnInput, offFn >>

NextAmount == CallBuild

SpecAmount == InitAmount /\ [][NextAmount]_vars

\* the digits of a * 10^decimals: the decimal point moved decimals places
ShiftPoint(integer, fraction, decimals) ==
  integer \o fraction \o [i \in 1..(decimals - Len(fraction)) |-> "0"]

\* the number a in display form: no leading zeros, no trailing fractional
\* zeros, no dot without fraction
DisplayForm(integer, fraction) ==
  StripLeadingZeros(integer)
    \o (IF StripTrailingZeros(fraction) = <<>> THEN <<>>
        ELSE <<".">> \o StripTrailingZeros(fraction))

\* C26: for a non-negative display amount a with at most `decimals`
\* fractional digits, amountRequired is the decimal string of the integer
\* a * 10^decimals, and converting that integer back to display units gives
\* the number a.
C26_AmountScalingExact ==
  (fnDone /\ ~fnInput.negative /\ Len(fnInput.fraction) <= TokenDecimals) =>
    LET required == fnOutput.requirement.amountRequired
    IN  /\ AllDigits(required)
        /\ required = StripLeadingZeros(
                        ShiftPoint(fnInput.integer, fnInput.fraction, TokenDecimals))
        /\ FormatUnits(BigInt(required), TokenDecimals)
             = DisplayForm(fnInput.integer, fnInput.fraction)
        /\ fnOutput.requirement.amountHuman = fnInput.amount

\* "1.005" scales to "1005000" and comes back as "1.005"
C26_Witness ==
  /\ fnDone
  /\ fnInput.amount = <<"1", ".", "0", "0", "5">>
  /\ fnOutput.requirement.amountRequired = <<"1", "0", "0", "5", "0", "0", "0">>
  /\ FormatUnits(1005000, TokenDecimals) = fnInput.amount

\* the display amount is zero or negative
NonPositive ==
  \/ fnInput.negative
  \/ /\ \A i \in DOMAIN fnInput.integer : fnInput.integer[i] = "0"
     /\ \A i \in DOMAIN fnInput.fraction : fnInput.fraction[i] = "0"

\* the amount has significant fractional digits beyond the token's decimals
TooManyFractionDigits ==
  Len(StripTrailingZeros(fnInput.fraction)) > TokenDecimals

\* C27: buildPaymentRequirement fails, and returns no requirement, when the
\* display amount is zero or negative or has more fractional digits than
\* the token's decimals.
C27_InvalidAmountRejected ==
  (fnDone /\ (NonPositive \/ TooManyFractionDigits)) => fnOutput.threw

\* ------------------------------------------------ headers of the responses
\* c.json(object, status): the only header the middleware's own responses
\* carry is the content type of the JSON body
JsonHeaders == [n \in {"Content-Type"} |-> <<"application/json">>]

\* the headers of the response the middleware itself gave to request r
ResponseHeaders(r) ==
  IF outcome[r] \in {"NONE", "UNPRICED", "ADMITTED", "ERROR"}
  THEN <<>>
  ELSE JsonHeaders

\* C28: a 402 challenge carries the response headers X-Payment-Amount,
\* X-Payment-Token and X-Payment-Recipient, equal to the amount, the token
\* and the recipient of the requirement in its body.
C28_ChallengeHeaders ==
  \A r \in Slots :
    outcome[r] = "CHALLENGE_ISSUED" =>
      LET hs == ResponseHeaders(r)
          pay == body[r].payment
      IN  /\ {"X-Payment-Amount", "X-Payment-Token", "X-Payment-Recipient"}
               \subseteq DOMAIN hs
          /\ hs["X-Payment-Amount"] \in {pay.amountRequired, pay.amountHuman}
          /\ hs["X-Payment-Token"] \in {pay.tokenSymbol, pay.tokenAddress}
          /\ hs["X-Payment-Recipient"] = pay.recipientAddress

\* ------------------------------------------- the order of the verifier's checks
\* the logs of the receipt that the required token emitted for a transfer,
\* with or without memo, to the required recipient
PayingLogs(in) ==
  {i \in 1..Len(in.receipt.logs) :
     LET l == in.receipt.logs[i]
     IN  /\ l.event \in {"Transfer", "TransferWithMemo"}
         /\ ToLowerCase(l.address) = ToLowerCase(in.requirement.tokenAddress)
         /\ ToLowerCase(l.to) = ToLowerCase(in.requirement.recipientAddress)}

Underpays(in, i) ==
  in.receipt.logs[i].value < DigitsValue(in.requirement.amountRequired)

WrongMemo(in, i) ==
  /\ in.requirement.memo # ZERO_MEMO
  /\ in.receipt.logs[i].event = "TransferWithMemo"
  /\ ToLowerCase(in.receipt.logs[i].memo) # ToLowerCase(in.requirement.memo)

\* every paying log underpays and carries a memo other than the required one
UnderpaidWithWrongMemo(in) ==
  /\ PayingLogs(in) # {}
  /\ \A i \in PayingLogs(in) : Underpays(in, i) /\ WrongMemo(in, i)

\* C29: the checks apply in the order expiry, receipt status, matching log,
\* amount, memo, and the first that fails is reported: past the expiry the
\* result is 'Payment requirement expired' whatever the node would have
\* answered (at the expiry instant it is not); a receipt whose status is not
\* success gives 'Transaction failed on-chain' whatever its logs; a receipt
\* with no log of the token to the recipient gives 'No matching Transfer
\* event found'; an underpaying log with a wrong memo gives 'Insufficient
\* payment', not 'Memo mismatch'.
C29_ChecksInOrder ==
  fnDone =>
    LET in == fnInput
        err == fnOutput.verification.error
        expired == in.now > in.requirement.expiry * 1000
        read == ~expired /\ in.rpcOk
        success == in.receipt.status = "success"
    IN  /\ expired <=> err = "Payment requirement expired"
        /\ (read /\ ~success) => err = "Transaction failed on-chain"
        /\ (read /\ success /\ PayingLogs(in) = {})
             => err = "No matching Transfer event found"
        /\ (read /\ success /\ UnderpaidWithWrongMemo(in))
             => err = "Insufficient payment"

C29_Witness ==
  /\ fnDone
  /\ fnInput.now = fnInput.requirement.expiry * 1000
  /\ fnInput.rpcOk
  /\ fnInput.receipt.status = "success"
  /\ Len(fnInput.receipt.logs) = 2
  /\ UnderpaidWithWrongMemo(fnInput)
  /\ fnOutput.verification.error = "Insufficient payment"

\* --------------------------------------------------- which log is selected
\* the paying logs that carry the required memo
MemoMatches(in) ==
  {i \in PayingLogs(in) :
     /\ in.receipt.logs[i].event = "TransferWithMemo"
     /\ ToLowerCase(in.receipt.logs[i].memo) = ToLowerCase(in.requirement.memo)}

Lowest(S) == CHOOSE i \in S : \A j \in S : i <= j

\* C30: when several logs match the token and the recipient, a
\* TransferWithMemo log whose memo equals the required memo is selected in
\* preference to any other, the one with the lowest index among several, and
\* the selected log's value and memo decide the outcome: the payment is
\* valid exactly when that log pays enough, and its value is the one reported.
C30_MemoMatchSelected ==
  (/\ fnDone
   /\ fnInput.now <= fnInput.requirement.expiry * 1000
   /\ fnInput.rpcOk
   /\ fnInput.receipt.status = "success"
   /\ fnInput.requirement.memo # ZERO_MEMO
   /\ MemoMatches(fnInput) # {})
    => LET sel == Lowest(MemoMatches(fnInput))
       IN  /\ fnOutput.verification.valid <=> ~Underpays(fnInput, sel)
           /\ fnOutput.verification.amount = fnInput.receipt.logs[sel].value

\* ------------------------------------------------------- the memo check
\* the verification reached the memo check: the requirement is not expired,
\* the receipt arrived and succeeded, a log was selected and it pays enough
ReachesMemoCheck(in) ==
  /\ in.now <= in.requirement.expiry * 1000
  /\ in.rpcOk
  /\ in.receipt.status = "success"
  /\ SelectedLog(in) # 0
  /\ ~Underpays(in, SelectedLog(in))

\* C31: a verification that reaches the memo check fails 'Memo mismatch'
\* exactly when the requirement memo is non-zero, the selected log is a
\* TransferWithMemo and its memo differs from the required one, compared
\* without regard to case; otherwise it is valid, so a plain Transfer log
\* is accepted under a non-zero requirement memo and a zero requirement
\* memo disables the check. No other verification fails 'Memo mismatch'.
C31_MemoMismatchExactly ==
  fnDone =>
    LET in == fnInput
        v == fnOutput.verification
        mismatch == /\ ReachesMemoCheck(in)
                    /\ WrongMemo(in, SelectedLog(in))
    IN  /\ v.error = "Memo mismatch" <=> mismatch
        /\ (ReachesMemoCheck(in) /\ ~mismatch) => v.valid

\* a memo log whose memo differs from the required one only in case is
\* accepted
C31_Witness ==
  /\ fnDone
  /\ ReachesMemoCheck(fnInput)
  /\ fnInput.requirement.memo # ZERO_MEMO
  /\ fnInput.receipt.logs[SelectedLog(fnInput)].event = "TransferWithMemo"
  /\ fnInput.receipt.logs[SelectedLog(fnInput)].memo # fnInput.requirement.memo
  /\ fnOutput.verification.valid

\* ------------------------------------------------ the order of the events
EventsOfType(type) == {i \in DOMAIN clientEvents : clientEvents[i].type = type}

ConfirmedTransfers == {t \in DOMAIN transfers : transfers[t].state = "confirmed"}

PaidRequests == {i \in DOMAIN requests : "X-Payment" \in DOMAIN requests[i].headers}

\* the number of elements of S that are at most i
RankIn(S, i) == Cardinality({j \in S : j <= i})

\* C32: in each paid attempt of fetch the events come in the order
\* payment_required, payment_sending, payment_confirmed(txHash);
\* payment_confirmed is emitted only once the transfer is confirmed, with
\* its hash, and the request carrying X-Payment is sent only after it.
C32_EventOrder ==
  /\ \A i \in EventsOfType("payment_sending") :
       i > 1 /\ clientEvents[i - 1].type = "payment_required"
  /\ \A i \in EventsOfType("payment_confirmed") :
       /\ i > 2
       /\ clientEvents[i - 1].type = "payment_sending"
       /\ clientEvents[i - 2].type = "payment_required"
       /\ \E t \in ConfirmedTransfers :
            /\ RankIn(ConfirmedTransfers, t)
                 = RankIn(EventsOfType("payment_confirmed"), i)
            /\ clientEvents[i].arg = transfers[t].txHash
  /\ Cardinality(EventsOfType("payment_confirmed")) = Cardinality(ConfirmedTransfers)
  /\ \A r \in PaidRequests :
       \E i \in EventsOfType("payment_confirmed") :
         /\ RankIn(EventsOfType("payment_confirmed"), i) = RankIn(PaidRequests, r)
         /\ requests[r].headers["X-Payment"]
              = PaymentHeader(clientEvents[i].arg, ChainId)

\* a call that paid twice: a failed resubmission, then a second paid attempt
C32_Witness ==
  /\ cpc = "awaitRetry"
  /\ Cardinality(EventsOfType("payment_confirmed")) = 2
  /\ Cardinality(PaidRequests) = 2
  /\ clientEvents[Len(clientEvents)] = Event("payment_confirmed", ClientTxHash(2))

\* ------------------------------------------------------------ the deadline
\* C33: once the time is past the deadline, fetch fails with the timeout
\* error: it begins no attempt, and an operation in flight at a suspension
\* point is abandoned, so that no request is sent, no transfer is submitted
\* and no response is returned any more.
C33_DeadlineAborts ==
  [][pastDeadline =>
       /\ Len(requests') = Len(requests)
       /\ Len(transfers') = Len(transfers)
       /\ cpc' = "returned" => cpc = "returned"
       /\ (cpc' = "failed" /\ cpc # "failed") => result'.error = TimeoutError]_vars

\* ------------------------------------------------- a failed balance read
\* C34: when the balance read itself fails, fetch neither fails nor retries
\* because of it: in the same step it emits payment_sending and submits the
\* transfer the challenge asks for.
C34_BalanceReadFailureIgnored ==
  [][(cpc = "awaitBalance" /\ cpc' # cpc /\ balanceRead' = "rejected")
       => /\ cpc' = "awaitPayment"
          /\ Len(transfers') = Len(transfers) + 1
          /\ LET t == transfers'[Len(transfers')]
             IN  /\ t.state = "sent"
                 /\ t.to = payment.recipientAddress
                 /\ t.tokenAddress = payment.tokenAddress
                 /\ ToDecimalString(t.amount) = payment.amountRequired
          /\ NewEvents = <<Event("payment_sending", BigInt(payment.amountRequired))>>
          /\ UNCHANGED << sleeps, result, attempt, requests >>]_vars

\* the balance read of the second attempt failed and its transfer is under way
C34_Witness ==
  /\ balanceRead = "rejected"
  /\ cpc = "awaitPayment"
  /\ attempt = 1
  /\ Len(transfers) = 2
  /\ transfers[2].state = "sent"

\* ============================================== the gateway's statistics
MaxGatewayRequests == 102

MaxInflight == 2

\* if (stats.recentTransactions.length > 100)
RecentCapacity == 100

\* Array.prototype.unshift
Unshift(array, element) == <<element>> \o array

KeepRecent_all(transactions) == transactions

\* if (length > 100) pop()
KeepRecent(transactions) ==
  IF Len(transactions) > RecentCapacity
  THEN SubSeq(transactions, 1, Len(transactions) - 1)
  ELSE transactions

\* the entry of recentTransactions for a payment, without its timestamp
TransactionLog(p) ==
  [txHash |-> p.txHash, from |-> p.from,
   amount |-> FormatUnits(p.amount, TokenDecimals), endpoint |-> p.endpoint]

\* what the paywall passes to onPayment for the n-th admitted request: a
\* transaction of its own, paying the price or one unit more
Settlement(n) ==
  [from |-> SenderAddress,
   amount |-> ParseUnits(Pricing["POST /api/chat"].amount, TokenDecimals) + (n % 2),
   txHash |-> <<"0", "x">> \o ToDecimalString(n),
   endpoint |-> "POST /api/chat"]

\* the middleware app.use('*'): stats.totalRequests++ before next()
CountRequest ==
  /\ stats.totalRequests < MaxGatewayRequests
  /\ inflight < MaxInflight
  /\ stats' = [stats EXCEPT !.totalRequests = @ + 1]
  /\ inflight' = inflight + 1
  /\ UNCHANGED << settlements, offGateway >>

\* the paywall admits a request in flight and calls the gateway's onPayment
OnPaymentHook ==
  /\ inflight > 0
  /\ LET p == Settlement(Len(settlements) + 1)
     IN  /\ stats' = [stats EXCEPT
                        !.paidRequests = @ + 1,
                        !.totalRevenue = @ + p.amount,
                        !.recentTransactions =
                           KeepRecent(Unshift(@, TransactionLog(p)))]
         /\ settlements' = Append(settlements, p)
  /\ inflight' = inflight - 1
  /\ UNCHANGED offGateway

\* a request in flight is answered without payment: a free route, a 402,
\* a 400 or a 409
AnswerUnpaid ==
  /\ inflight > 0
  /\ inflight' = inflight - 1
  /\ UNCHANGED << stats, settlements, offGateway >>

InitGateway ==
  /\ InitServer
  /\ onPayment = TRUE
  /\ InitFn
  /\ InitClientIdle
  /\ stats = NoStats
  /\ inflight = 0
  /\ settlements = <<>>

NextGateway == CountRequest \/ OnPaymentHook \/ AnswerUnpaid

SpecGateway == InitGateway /\ [][NextGateway]_vars

RECURSIVE SumOfAmounts(_)
SumOfAmounts(ps) ==
  IF ps = <<>> THEN 0 ELSE ps[1].amount + SumOfAmounts(Tail(ps))

\* the last n settlements, the newest first
NewestFirst(n) ==
  [i \in 1..n |-> TransactionLog(settlements[Len(settlements) + 1 - i])]

\* C35: the recent-transactions buffer holds at most 100 entries, the most
\* recent accepted settlements with the newest first; paidRequests is the
\* number of hook invocations, totalRevenue the sum of their amounts, and
\* paidRequests never exceeds totalRequests.
C35_StatsConsistent ==
  /\ Len(stats.recentTransactions) <= 100
  /\ stats.recentTransactions
       = NewestFirst(IF Len(settlements) < 100 THEN Len(settlements) ELSE 100)
  /\ stats.paidRequests = Len(settlements)
  /\ stats.totalRevenue = SumOfAmounts(settlements)
  /\ stats.paidRequests <= stats.totalRequests

\* the 101st payment has pushed the first one out of the buffer
C35_Witness ==
  /\ Len(settlements) = 101
  /\ Len(stats.recentTransactions) = 100
  /\ stats.recentTransactions[1].txHash = <<"0", "x", "1", "0", "1">>
  /\ stats.recentTransactions[100].txHash = <<"0", "x", "2">>
  /\ stats.paidRequests < stats.totalRequests

\* ------------------------------------------- expiry on the middleware path
\* the transaction of request r pays the price of its endpoint in the token
\* to the recipient: its receipt succeeded and the first transfer log of
\* the token to the recipient carries at least the price
PaysPrice(r) ==
  /\ OnChain(txHash[r])
  /\ LET receipt == ReceiptOf(txHash[r])
         paying == {i \in 1..Len(receipt.logs) :
                      /\ receipt.logs[i].event = "Transfer"
                      /\ ToLowerCase(receipt.logs[i].address) = ToLowerCase(TokenAddress)
                      /\ ToLowerCase(receipt.logs[i].to) = ToLowerCase(RecipientAddress)}
     IN  /\ receipt.status = "success"
         /\ paying # {}
         /\ receipt.logs[Lowest(paying)].value >= RequiredUnits(r)

\* a challenge whose expiry had passed when request r was handled
ExpiredChallengeBefore(r) ==
  \E q \in Slots :
    /\ q < r
    /\ outcome[q] = "CHALLENGE_ISSUED"
    /\ key[q] = key[r]
    /\ issuedAt[r] > body[q].payment.expiry * 1000

\* C36: on the middleware path no verification fails as expired, because
\* the requirement is rebuilt with expiry = now + window as the request is
\* handled: a request whose transaction pays token, recipient and amount
\* and whose txHash is unused is rejected only when the ledger read fails,
\* however long ago the challenge was issued.
C36_NeverExpiredOnMiddlewarePath ==
  \A r \in Slots :
    /\ verification[r].error # "Payment requirement expired"
    /\ (outcome[r] = "REJECTED" /\ PaysPrice(r))
         => verification[r].error = "Verification failed"
    /\ (pc[r] = "verified" /\ PaysPrice(r) /\ verification[r].error # "Verification failed")
         => verification[r].valid

\* admitted after the challenge for the same endpoint had expired
C36_Witness ==
  /\ outcome[1] = "CHALLENGE_ISSUED"
  /\ outcome[2] = "ADMITTED"
  /\ ExpiredChallengeBefore(2)
  /\ PaysPrice(2)

\* ------------------------------------------------------ paying only once
\* C37: within one call of fetch, once a transfer is confirmed no further
\* transfer is submitted: a confirmed transfer is the last one of the call.
C37_NoTransferAfterConfirmed ==
  \A t \in ConfirmedTransfers : t = Len(transfers)

\* ----------------------------------------------- the two header parsers
\* C38: the middleware's inline parse of X-Payment and parsePaymentHeader
\* are equivalent: for every header both reject it, or both accept it with
\* the same txHash and chainId; a priced request carrying a non-empty header
\* is answered 400 exactly when parsePaymentHeader returns null, and
\* otherwise goes on with the txHash parsePaymentHeader returns.
C38_ParsersEquivalent ==
  fnDone =>
    LET core == fnOutput
        inline == ParseInline(fnInput)
    IN  /\ core.isNull = inline.isNull
        /\ ~core.isNull =>
             /\ core.txHash = inline.txHash
             /\ core.chainId = inline.chainId
        /\ (pc[1] # "idle" /\ fnInput # NoHeader) =>
             /\ outcome[1] = "HEADER_MALFORMED" <=> core.isNull
             /\ ~core.isNull => txHash[1] = core.txHash

\* ------------------------------------------ the chain id of the header
TxPart(h) == Slice(h, 0, LastIndexOf(h, ":"))

\* what the ledger of the configured chain answers for the transaction
\* named by header h, for the endpoint with key k
LedgerVerdict(h, k) ==
  IF OnChain(TxPart(h))
  THEN VerifyReceipt(ReceiptOf(TxPart(h)), Requirement(k, 0))
  ELSE Failure("Verification failed")

\* C39: the chainId of the X-Payment header does not influence admission:
\* the outcome of a request with a well-formed header is that of looking
\* up the txHash part on the configured chain, so that requests differing
\* only in the chainId are answered alike.
C39_ChainIdIgnored ==
  (pc[1] = "done" /\ ~Malformed(header[1])) =>
    /\ txHash[1] = TxPart(header[1])
    /\ outcome[1] \in {"ADMITTED", "ERROR", "REJECTED"}
    /\ outcome[1] \in {"ADMITTED", "ERROR"} =>
         /\ IsValid(LedgerVerdict(header[1], key[1]))
         /\ verification[1] = LedgerVerdict(header[1], key[1])
    /\ outcome[1] = "REJECTED" =>
         verification[1] \in {LedgerVerdict(header[1], key[1]),
                              Failure("Verification failed")}

\* a header naming chain 0 is admitted like one naming any other chain
C39_Witness ==
  /\ pc[1] = "done"
  /\ header[1] = <<"0", "x", "a", ":", "0">>
  /\ outcome[1] = "ADMITTED"
  /\ status[1] = 200

\* ------------------------------------- admission and the issued challenges
\* the challenges issued before request r was answered
ChallengesBefore(r) == {q \in Slots : q < r /\ outcome[q] = "CHALLENGE_ISSUED"}

\* the receipt of request r's transaction logs a transferWithMemo whose memo
\* is the one of challenge q
CarriesMemoOf(r, q) ==
  /\ OnChain(txHash[r])
  /\ \E i \in 1..Len(ReceiptOf(txHash[r]).logs) :
       /\ ReceiptOf(txHash[r]).logs[i].event = "TransferWithMemo"
       /\ ReceiptOf(txHash[r]).logs[i].memo = body[q].payment.memo

\* C40: admission does not depend on any issued challenge. The middleware
\* verifies with an empty nonce and the zero memo, so no request fails for
\* its memo, and a request whose unused transaction pays the price of its
\* endpoint to the recipient is admitted (unless the ledger read fails),
\* whether or not a challenge was issued and whatever endpoint, nonce and
\* memo a challenge named: a transfer made for one endpoint is accepted
\* for another.
C40_AdmissionIgnoresChallenges ==
  \A r \in Slots :
    /\ verification[r].error # "Memo mismatch"
    /\ (/\ pc[r] = "done"
        /\ PaysPrice(r)
        /\ outcome[r] # "REPLAY"
        /\ verification[r].error # "Verification failed")
         => /\ outcome[r] \in {"ADMITTED", "ERROR"}
            /\ verification[r].valid
            /\ txHash[r] \in usedTxHashes

\* a transfer carrying the memo of the challenge for POST /api/paid is
\* admitted for POST /api/chat
C40_Witness ==
  /\ outcome[1] = "CHALLENGE_ISSUED"
  /\ key[1] = "POST /api/paid"
  /\ outcome[2] = "ADMITTED"
  /\ key[2] = "POST /api/chat"
  /\ CarriesMemoOf(2, 1)
  /\ body[1].payment.nonce # <<>>

====
